---------------------------- MODULE Spec2Model ----------------------------
(***************************************************************************)
(* A model of ollama-opencode-adapter: the /api/chat handler, the unified  *)
(* response engine (OpencodeService.generateResponse) with its fallback    *)
(* chain, and the session exchange (OpencodeService.sendPrompt) against    *)
(* the remote backend (create / prompt / messages / delete).               *)
(*                                                                         *)
(* Strings are sequences of code points (integers).  A negative code -k    *)
(* inside a backend text stands for the serialisation of the JSON value    *)
(* JsonPool[k], taken as one indivisible run of characters.                *)
(***************************************************************************)
EXTENDS Integers, Sequences, FiniteSets, TLC

(***************************************************************************)
(* Bounds of the model                                                     *)
(***************************************************************************)
\* longest request message list drawn by ReceiveChat
MaxMessages == 2
\* model clock granularity (ms): one poll iteration (the list-messages call
\* plus the pollIntervalMs sleep) is taken to last one tick, and a
\* session.prompt call that resolves takes a number of ticks
TickMs == 10000

(***************************************************************************)
(* Program constants                                                       *)
(***************************************************************************)
PrimaryMaxWaitMs == 50000
SecondaryMaxWaitMs == 10000
PromptTimeoutMs == 40000
DeleteTimeoutMs == 5000
\* the default of sendPrompt's pollIntervalMs option, which no caller sets
PollIntervalMs == 300

(***************************************************************************)
(* String helpers: what the JavaScript string and RegExp operations used   *)
(* by the source do on sequences of code points                            *)
(***************************************************************************)
\* LineTerminator: the characters "." does not match
IsLineTerminator(c) == c \in {10, 13, 8232, 8233}

\* WhiteSpace + LineTerminator: the characters of \s and of String.trim
IsWhiteSpace(c) ==
    c \in ({9, 10, 11, 12, 13, 32, 160, 5760, 8232, 8233, 8239, 8287, 12288, 65279}
            \cup (8192..8202))

\* \w, which decides \b
IsWordChar(c) == c \in ((48..57) \cup (65..90) \cup (97..122) \cup {95})

\* the case folding of the i flag (no u flag) against the ASCII letters of
\* the source's patterns: only an ASCII letter matches its other case
LowerChar(c) == IF c \in 65..90 THEN c + 32 ELSE c

\* a text with the i flag's folding applied to every character
IgnoreCase(s) == [i \in 1..Len(s) |-> LowerChar(s[i])]

\* the simple lower-case mappings of the Unicode character database, as
\* runs <<first, last, stride, delta>>: every stride-th code point from
\* first to last maps to itself plus delta
LowerCaseRuns ==
    <<
       <<65, 90, 1, 32>>, <<192, 214, 1, 32>>, <<216, 222, 1, 32>>, <<256, 302, 2, 1>>,
       <<306, 310, 2, 1>>, <<313, 327, 2, 1>>, <<330, 374, 2, 1>>, <<376, 376, 1, -121>>,
       <<377, 381, 2, 1>>, <<385, 385, 1, 210>>, <<386, 388, 2, 1>>, <<390, 390, 1, 206>>,
       <<391, 391, 1, 1>>, <<393, 394, 1, 205>>, <<395, 395, 1, 1>>, <<398, 398, 1, 79>>,
       <<399, 399, 1, 202>>, <<400, 400, 1, 203>>, <<401, 401, 1, 1>>, <<403, 403, 1, 205>>,
       <<404, 404, 1, 207>>, <<406, 406, 1, 211>>, <<407, 407, 1, 209>>, <<408, 408, 1, 1>>,
       <<412, 412, 1, 211>>, <<413, 413, 1, 213>>, <<415, 415, 1, 214>>, <<416, 420, 2, 1>>,
       <<422, 422, 1, 218>>, <<423, 423, 1, 1>>, <<425, 425, 1, 218>>, <<428, 428, 1, 1>>,
       <<430, 430, 1, 218>>, <<431, 431, 1, 1>>, <<433, 434, 1, 217>>, <<435, 437, 2, 1>>,
       <<439, 439, 1, 219>>, <<440, 440, 1, 1>>, <<444, 444, 1, 1>>, <<452, 452, 1, 2>>,
       <<453, 453, 1, 1>>, <<455, 455, 1, 2>>, <<456, 456, 1, 1>>, <<458, 458, 1, 2>>,
       <<459, 475, 2, 1>>, <<478, 494, 2, 1>>, <<497, 497, 1, 2>>, <<498, 500, 2, 1>>,
       <<502, 502, 1, -97>>, <<503, 503, 1, -56>>, <<504, 542, 2, 1>>, <<544, 544, 1, -130>>,
       <<546, 562, 2, 1>>, <<570, 570, 1, 10795>>, <<571, 571, 1, 1>>, <<573, 573, 1, -163>>,
       <<574, 574, 1, 10792>>, <<577, 577, 1, 1>>, <<579, 579, 1, -195>>, <<580, 580, 1, 69>>,
       <<581, 581, 1, 71>>, <<582, 590, 2, 1>>, <<880, 882, 2, 1>>, <<886, 886, 1, 1>>,
       <<895, 895, 1, 116>>, <<902, 902, 1, 38>>, <<904, 906, 1, 37>>, <<908, 908, 1, 64>>,
       <<910, 911, 1, 63>>, <<913, 929, 1, 32>>, <<931, 939, 1, 32>>, <<975, 975, 1, 8>>,
       <<984, 1006, 2, 1>>, <<1012, 1012, 1, -60>>, <<1015, 1015, 1, 1>>, <<1017, 1017, 1, -7>>,
       <<1018, 1018, 1, 1>>, <<1021, 1023, 1, -130>>, <<1024, 1039, 1, 80>>, <<1040, 1071, 1, 32>>,
       <<1120, 1152, 2, 1>>, <<1162, 1214, 2, 1>>, <<1216, 1216, 1, 15>>, <<1217, 1229, 2, 1>>,
       <<1232, 1326, 2, 1>>, <<1329, 1366, 1, 48>>, <<4256, 4293, 1, 7264>>, <<4295, 4295, 1, 7264>>,
       <<4301, 4301, 1, 7264>>, <<5024, 5103, 1, 38864>>, <<5104, 5109, 1, 8>>, <<7305, 7305, 1, 1>>,
       <<7312, 7354, 1, -3008>>, <<7357, 7359, 1, -3008>>, <<7680, 7828, 2, 1>>, <<7838, 7838, 1, -7615>>,
       <<7840, 7934, 2, 1>>, <<7944, 7951, 1, -8>>, <<7960, 7965, 1, -8>>, <<7976, 7983, 1, -8>>,
       <<7992, 7999, 1, -8>>, <<8008, 8013, 1, -8>>, <<8025, 8031, 2, -8>>, <<8040, 8047, 1, -8>>,
       <<8072, 8079, 1, -8>>, <<8088, 8095, 1, -8>>, <<8104, 8111, 1, -8>>, <<8120, 8121, 1, -8>>,
       <<8122, 8123, 1, -74>>, <<8124, 8124, 1, -9>>, <<8136, 8139, 1, -86>>, <<8140, 8140, 1, -9>>,
       <<8152, 8153, 1, -8>>, <<8154, 8155, 1, -100>>, <<8168, 8169, 1, -8>>, <<8170, 8171, 1, -112>>,
       <<8172, 8172, 1, -7>>, <<8184, 8185, 1, -128>>, <<8186, 8187, 1, -126>>, <<8188, 8188, 1, -9>>,
       <<8486, 8486, 1, -7517>>, <<8490, 8490, 1, -8383>>, <<8491, 8491, 1, -8262>>, <<8498, 8498, 1, 28>>,
       <<8544, 8559, 1, 16>>, <<8579, 8579, 1, 1>>, <<9398, 9423, 1, 26>>, <<11264, 11311, 1, 48>>,
       <<11360, 11360, 1, 1>>, <<11362, 11362, 1, -10743>>, <<11363, 11363, 1, -3814>>, <<11364, 11364, 1, -10727>>,
       <<11367, 11371, 2, 1>>, <<11373, 11373, 1, -10780>>, <<11374, 11374, 1, -10749>>, <<11375, 11375, 1, -10783>>,
       <<11376, 11376, 1, -10782>>, <<11378, 11378, 1, 1>>, <<11381, 11381, 1, 1>>, <<11390, 11391, 1, -10815>>,
       <<11392, 11490, 2, 1>>, <<11499, 11501, 2, 1>>, <<11506, 11506, 1, 1>>, <<42560, 42604, 2, 1>>,
       <<42624, 42650, 2, 1>>, <<42786, 42798, 2, 1>>, <<42802, 42862, 2, 1>>, <<42873, 42875, 2, 1>>,
       <<42877, 42877, 1, -35332>>, <<42878, 42886, 2, 1>>, <<42891, 42891, 1, 1>>, <<42893, 42893, 1, -42280>>,
       <<42896, 42898, 2, 1>>, <<42902, 42920, 2, 1>>, <<42922, 42922, 1, -42308>>, <<42923, 42923, 1, -42319>>,
       <<42924, 42924, 1, -42315>>, <<42925, 42925, 1, -42305>>, <<42926, 42926, 1, -42308>>, <<42928, 42928, 1, -42258>>,
       <<42929, 42929, 1, -42282>>, <<42930, 42930, 1, -42261>>, <<42931, 42931, 1, 928>>, <<42932, 42946, 2, 1>>,
       <<42948, 42948, 1, -48>>, <<42949, 42949, 1, -42307>>, <<42950, 42950, 1, -35384>>, <<42951, 42953, 2, 1>>,
       <<42955, 42955, 1, -42343>>, <<42956, 42970, 2, 1>>, <<42972, 42972, 1, -42561>>, <<42997, 42997, 1, 1>>,
       <<65313, 65338, 1, 32>>, <<66560, 66599, 1, 40>>, <<66736, 66771, 1, 40>>, <<66928, 66938, 1, 39>>,
       <<66940, 66954, 1, 39>>, <<66956, 66962, 1, 39>>, <<66964, 66965, 1, 39>>, <<68736, 68786, 1, 64>>,
       <<68944, 68965, 1, 32>>, <<71840, 71871, 1, 32>>, <<93760, 93791, 1, 32>>, <<93856, 93880, 1, 27>>,
       <<125184, 125217, 1, 34>> >>

\* the code points that count as a cased letter around a capital sigma, as
\* runs <<first, last>>: property Cased and not Case_Ignorable (a character
\* with both is skipped, never taken for the letter)
CasedRuns ==
    <<
       <<65, 90>>, <<97, 122>>, <<170, 170>>, <<181, 181>>, <<186, 186>>,
       <<192, 214>>, <<216, 246>>, <<248, 442>>, <<444, 447>>, <<452, 659>>,
       <<662, 687>>, <<880, 883>>, <<886, 887>>, <<891, 893>>, <<895, 895>>,
       <<902, 902>>, <<904, 906>>, <<908, 908>>, <<910, 929>>, <<931, 1013>>,
       <<1015, 1153>>, <<1162, 1327>>, <<1329, 1366>>, <<1376, 1416>>, <<4256, 4293>>,
       <<4295, 4295>>, <<4301, 4301>>, <<4304, 4346>>, <<4349, 4351>>, <<5024, 5109>>,
       <<5112, 5117>>, <<7296, 7306>>, <<7312, 7354>>, <<7357, 7359>>, <<7424, 7467>>,
       <<7531, 7543>>, <<7545, 7578>>, <<7680, 7957>>, <<7960, 7965>>, <<7968, 8005>>,
       <<8008, 8013>>, <<8016, 8023>>, <<8025, 8025>>, <<8027, 8027>>, <<8029, 8029>>,
       <<8031, 8061>>, <<8064, 8116>>, <<8118, 8124>>, <<8126, 8126>>, <<8130, 8132>>,
       <<8134, 8140>>, <<8144, 8147>>, <<8150, 8155>>, <<8160, 8172>>, <<8178, 8180>>,
       <<8182, 8188>>, <<8450, 8450>>, <<8455, 8455>>, <<8458, 8467>>, <<8469, 8469>>,
       <<8473, 8477>>, <<8484, 8484>>, <<8486, 8486>>, <<8488, 8488>>, <<8490, 8493>>,
       <<8495, 8500>>, <<8505, 8505>>, <<8508, 8511>>, <<8517, 8521>>, <<8526, 8526>>,
       <<8544, 8575>>, <<8579, 8580>>, <<9398, 9449>>, <<11264, 11387>>, <<11390, 11492>>,
       <<11499, 11502>>, <<11506, 11507>>, <<11520, 11557>>, <<11559, 11559>>, <<11565, 11565>>,
       <<42560, 42605>>, <<42624, 42651>>, <<42786, 42863>>, <<42865, 42887>>, <<42891, 42894>>,
       <<42896, 42972>>, <<42997, 42998>>, <<43002, 43002>>, <<43824, 43866>>, <<43872, 43880>>,
       <<43888, 43967>>, <<64256, 64262>>, <<64275, 64279>>, <<65313, 65338>>, <<65345, 65370>>,
       <<66560, 66639>>, <<66736, 66771>>, <<66776, 66811>>, <<66928, 66938>>, <<66940, 66954>>,
       <<66956, 66962>>, <<66964, 66965>>, <<66967, 66977>>, <<66979, 66993>>, <<66995, 67001>>,
       <<67003, 67004>>, <<68736, 68786>>, <<68800, 68850>>, <<68944, 68965>>, <<68976, 68997>>,
       <<71840, 71903>>, <<93760, 93823>>, <<93856, 93880>>, <<93883, 93907>>, <<119808, 119892>>,
       <<119894, 119964>>, <<119966, 119967>>, <<119970, 119970>>, <<119973, 119974>>, <<119977, 119980>>,
       <<119982, 119993>>, <<119995, 119995>>, <<119997, 120003>>, <<120005, 120069>>, <<120071, 120074>>,
       <<120077, 120084>>, <<120086, 120092>>, <<120094, 120121>>, <<120123, 120126>>, <<120128, 120132>>,
       <<120134, 120134>>, <<120138, 120144>>, <<120146, 120485>>, <<120488, 120512>>, <<120514, 120538>>,
       <<120540, 120570>>, <<120572, 120596>>, <<120598, 120628>>, <<120630, 120654>>, <<120656, 120686>>,
       <<120688, 120712>>, <<120714, 120744>>, <<120746, 120770>>, <<120772, 120779>>, <<122624, 122633>>,
       <<122635, 122654>>, <<122661, 122666>>, <<125184, 125251>>, <<127280, 127305>>, <<127312, 127337>>,
       <<127344, 127369>> >>

\* the code points with the property Case_Ignorable, as runs <<first, last>>
CaseIgnorableRuns ==
    <<
       <<39, 39>>, <<46, 46>>, <<58, 58>>, <<94, 94>>, <<96, 96>>,
       <<168, 168>>, <<173, 173>>, <<175, 175>>, <<180, 180>>, <<183, 184>>,
       <<688, 879>>, <<884, 885>>, <<890, 890>>, <<900, 901>>, <<903, 903>>,
       <<1155, 1161>>, <<1369, 1369>>, <<1375, 1375>>, <<1425, 1469>>, <<1471, 1471>>,
       <<1473, 1474>>, <<1476, 1477>>, <<1479, 1479>>, <<1524, 1524>>, <<1536, 1541>>,
       <<1552, 1562>>, <<1564, 1564>>, <<1600, 1600>>, <<1611, 1631>>, <<1648, 1648>>,
       <<1750, 1757>>, <<1759, 1768>>, <<1770, 1773>>, <<1807, 1807>>, <<1809, 1809>>,
       <<1840, 1866>>, <<1958, 1968>>, <<2027, 2037>>, <<2042, 2042>>, <<2045, 2045>>,
       <<2070, 2093>>, <<2137, 2139>>, <<2184, 2184>>, <<2192, 2193>>, <<2199, 2207>>,
       <<2249, 2306>>, <<2362, 2362>>, <<2364, 2364>>, <<2369, 2376>>, <<2381, 2381>>,
       <<2385, 2391>>, <<2402, 2403>>, <<2417, 2417>>, <<2433, 2433>>, <<2492, 2492>>,
       <<2497, 2500>>, <<2509, 2509>>, <<2530, 2531>>, <<2558, 2558>>, <<2561, 2562>>,
       <<2620, 2620>>, <<2625, 2626>>, <<2631, 2632>>, <<2635, 2637>>, <<2641, 2641>>,
       <<2672, 2673>>, <<2677, 2677>>, <<2689, 2690>>, <<2748, 2748>>, <<2753, 2757>>,
       <<2759, 2760>>, <<2765, 2765>>, <<2786, 2787>>, <<2810, 2815>>, <<2817, 2817>>,
       <<2876, 2876>>, <<2879, 2879>>, <<2881, 2884>>, <<2893, 2893>>, <<2901, 2902>>,
       <<2914, 2915>>, <<2946, 2946>>, <<3008, 3008>>, <<3021, 3021>>, <<3072, 3072>>,
       <<3076, 3076>>, <<3132, 3132>>, <<3134, 3136>>, <<3142, 3144>>, <<3146, 3149>>,
       <<3157, 3158>>, <<3170, 3171>>, <<3201, 3201>>, <<3260, 3260>>, <<3263, 3263>>,
       <<3270, 3270>>, <<3276, 3277>>, <<3298, 3299>>, <<3328, 3329>>, <<3387, 3388>>,
       <<3393, 3396>>, <<3405, 3405>>, <<3426, 3427>>, <<3457, 3457>>, <<3530, 3530>>,
       <<3538, 3540>>, <<3542, 3542>>, <<3633, 3633>>, <<3636, 3642>>, <<3654, 3662>>,
       <<3761, 3761>>, <<3764, 3772>>, <<3782, 3782>>, <<3784, 3790>>, <<3864, 3865>>,
       <<3893, 3893>>, <<3895, 3895>>, <<3897, 3897>>, <<3953, 3966>>, <<3968, 3972>>,
       <<3974, 3975>>, <<3981, 3991>>, <<3993, 4028>>, <<4038, 4038>>, <<4141, 4144>>,
       <<4146, 4151>>, <<4153, 4154>>, <<4157, 4158>>, <<4184, 4185>>, <<4190, 4192>>,
       <<4209, 4212>>, <<4226, 4226>>, <<4229, 4230>>, <<4237, 4237>>, <<4253, 4253>>,
       <<4348, 4348>>, <<4957, 4959>>, <<5906, 5908>>, <<5938, 5939>>, <<5970, 5971>>,
       <<6002, 6003>>, <<6068, 6069>>, <<6071, 6077>>, <<6086, 6086>>, <<6089, 6099>>,
       <<6103, 6103>>, <<6109, 6109>>, <<6155, 6159>>, <<6211, 6211>>, <<6277, 6278>>,
       <<6313, 6313>>, <<6432, 6434>>, <<6439, 6440>>, <<6450, 6450>>, <<6457, 6459>>,
       <<6679, 6680>>, <<6683, 6683>>, <<6742, 6742>>, <<6744, 6750>>, <<6752, 6752>>,
       <<6754, 6754>>, <<6757, 6764>>, <<6771, 6780>>, <<6783, 6783>>, <<6823, 6823>>,
       <<6832, 6877>>, <<6880, 6891>>, <<6912, 6915>>, <<6964, 6964>>, <<6966, 6970>>,
       <<6972, 6972>>, <<6978, 6978>>, <<7019, 7027>>, <<7040, 7041>>, <<7074, 7077>>,
       <<7080, 7081>>, <<7083, 7085>>, <<7142, 7142>>, <<7144, 7145>>, <<7149, 7149>>,
       <<7151, 7153>>, <<7212, 7219>>, <<7222, 7223>>, <<7288, 7293>>, <<7376, 7378>>,
       <<7380, 7392>>, <<7394, 7400>>, <<7405, 7405>>, <<7412, 7412>>, <<7416, 7417>>,
       <<7468, 7530>>, <<7544, 7544>>, <<7579, 7679>>, <<8125, 8125>>, <<8127, 8129>>,
       <<8141, 8143>>, <<8157, 8159>>, <<8173, 8175>>, <<8189, 8190>>, <<8203, 8207>>,
       <<8216, 8217>>, <<8228, 8228>>, <<8231, 8231>>, <<8234, 8238>>, <<8288, 8292>>,
       <<8294, 8303>>, <<8305, 8305>>, <<8319, 8319>>, <<8336, 8348>>, <<8400, 8432>>,
       <<11388, 11389>>, <<11503, 11505>>, <<11631, 11631>>, <<11647, 11647>>, <<11744, 11775>>,
       <<11823, 11823>>, <<12293, 12293>>, <<12330, 12333>>, <<12337, 12341>>, <<12347, 12347>>,
       <<12441, 12446>>, <<12540, 12542>>, <<40981, 40981>>, <<42232, 42237>>, <<42508, 42508>>,
       <<42607, 42610>>, <<42612, 42621>>, <<42623, 42623>>, <<42652, 42655>>, <<42736, 42737>>,
       <<42752, 42785>>, <<42864, 42864>>, <<42888, 42890>>, <<42993, 42996>>, <<43000, 43001>>,
       <<43010, 43010>>, <<43014, 43014>>, <<43019, 43019>>, <<43045, 43046>>, <<43052, 43052>>,
       <<43204, 43205>>, <<43232, 43249>>, <<43263, 43263>>, <<43302, 43309>>, <<43335, 43345>>,
       <<43392, 43394>>, <<43443, 43443>>, <<43446, 43449>>, <<43452, 43453>>, <<43471, 43471>>,
       <<43493, 43494>>, <<43561, 43566>>, <<43569, 43570>>, <<43573, 43574>>, <<43587, 43587>>,
       <<43596, 43596>>, <<43632, 43632>>, <<43644, 43644>>, <<43696, 43696>>, <<43698, 43700>>,
       <<43703, 43704>>, <<43710, 43711>>, <<43713, 43713>>, <<43741, 43741>>, <<43756, 43757>>,
       <<43763, 43764>>, <<43766, 43766>>, <<43867, 43871>>, <<43881, 43883>>, <<44005, 44005>>,
       <<44008, 44008>>, <<44013, 44013>>, <<64286, 64286>>, <<64434, 64450>>, <<65024, 65039>>,
       <<65043, 65043>>, <<65056, 65071>>, <<65106, 65106>>, <<65109, 65109>>, <<65279, 65279>>,
       <<65287, 65287>>, <<65294, 65294>>, <<65306, 65306>>, <<65342, 65342>>, <<65344, 65344>>,
       <<65392, 65392>>, <<65438, 65439>>, <<65507, 65507>>, <<65529, 65531>>, <<66045, 66045>>,
       <<66272, 66272>>, <<66422, 66426>>, <<67456, 67461>>, <<67463, 67504>>, <<67506, 67514>>,
       <<68097, 68099>>, <<68101, 68102>>, <<68108, 68111>>, <<68152, 68154>>, <<68159, 68159>>,
       <<68325, 68326>>, <<68900, 68903>>, <<68942, 68942>>, <<68969, 68973>>, <<68975, 68975>>,
       <<69291, 69292>>, <<69317, 69317>>, <<69370, 69375>>, <<69446, 69456>>, <<69506, 69509>>,
       <<69633, 69633>>, <<69688, 69702>>, <<69744, 69744>>, <<69747, 69748>>, <<69759, 69761>>,
       <<69811, 69814>>, <<69817, 69818>>, <<69821, 69821>>, <<69826, 69826>>, <<69837, 69837>>,
       <<69888, 69890>>, <<69927, 69931>>, <<69933, 69940>>, <<70003, 70003>>, <<70016, 70017>>,
       <<70070, 70078>>, <<70089, 70092>>, <<70095, 70095>>, <<70191, 70193>>, <<70196, 70196>>,
       <<70198, 70199>>, <<70206, 70206>>, <<70209, 70209>>, <<70367, 70367>>, <<70371, 70378>>,
       <<70400, 70401>>, <<70459, 70460>>, <<70464, 70464>>, <<70502, 70508>>, <<70512, 70516>>,
       <<70587, 70592>>, <<70606, 70606>>, <<70608, 70608>>, <<70610, 70610>>, <<70625, 70626>>,
       <<70712, 70719>>, <<70722, 70724>>, <<70726, 70726>>, <<70750, 70750>>, <<70835, 70840>>,
       <<70842, 70842>>, <<70847, 70848>>, <<70850, 70851>>, <<71090, 71093>>, <<71100, 71101>>,
       <<71103, 71104>>, <<71132, 71133>>, <<71219, 71226>>, <<71229, 71229>>, <<71231, 71232>>,
       <<71339, 71339>>, <<71341, 71341>>, <<71344, 71349>>, <<71351, 71351>>, <<71453, 71453>>,
       <<71455, 71455>>, <<71458, 71461>>, <<71463, 71467>>, <<71727, 71735>>, <<71737, 71738>>,
       <<71995, 71996>>, <<71998, 71998>>, <<72003, 72003>>, <<72148, 72151>>, <<72154, 72155>>,
       <<72160, 72160>>, <<72193, 72202>>, <<72243, 72248>>, <<72251, 72254>>, <<72263, 72263>>,
       <<72273, 72278>>, <<72281, 72283>>, <<72330, 72342>>, <<72344, 72345>>, <<72544, 72544>>,
       <<72546, 72548>>, <<72550, 72550>>, <<72752, 72758>>, <<72760, 72765>>, <<72767, 72767>>,
       <<72850, 72871>>, <<72874, 72880>>, <<72882, 72883>>, <<72885, 72886>>, <<73009, 73014>>,
       <<73018, 73018>>, <<73020, 73021>>, <<73023, 73029>>, <<73031, 73031>>, <<73104, 73105>>,
       <<73109, 73109>>, <<73111, 73111>>, <<73177, 73177>>, <<73459, 73460>>, <<73472, 73473>>,
       <<73526, 73530>>, <<73536, 73536>>, <<73538, 73538>>, <<73562, 73562>>, <<78896, 78912>>,
       <<78919, 78933>>, <<90398, 90409>>, <<90413, 90415>>, <<92912, 92916>>, <<92976, 92982>>,
       <<92992, 92995>>, <<93504, 93506>>, <<93547, 93548>>, <<94031, 94031>>, <<94095, 94111>>,
       <<94176, 94177>>, <<94179, 94180>>, <<94194, 94195>>, <<110576, 110579>>, <<110581, 110587>>,
       <<110589, 110590>>, <<113821, 113822>>, <<113824, 113827>>, <<118528, 118573>>, <<118576, 118598>>,
       <<119143, 119145>>, <<119155, 119170>>, <<119173, 119179>>, <<119210, 119213>>, <<119362, 119364>>,
       <<121344, 121398>>, <<121403, 121452>>, <<121461, 121461>>, <<121476, 121476>>, <<121499, 121503>>,
       <<121505, 121519>>, <<122880, 122886>>, <<122888, 122904>>, <<122907, 122913>>, <<122915, 122916>>,
       <<122918, 122922>>, <<122928, 122989>>, <<123023, 123023>>, <<123184, 123197>>, <<123566, 123566>>,
       <<123628, 123631>>, <<124139, 124143>>, <<124398, 124399>>, <<124643, 124643>>, <<124646, 124646>>,
       <<124654, 124655>>, <<124661, 124661>>, <<124671, 124671>>, <<125136, 125142>>, <<125252, 125259>>,
       <<127995, 127999>>, <<917505, 917505>>, <<917536, 917631>>, <<917760, 917999>> >>

IsCased(c) ==
    \E k \in 1..Len(CasedRuns) : c >= CasedRuns[k][1] /\ c <= CasedRuns[k][2]

IsCaseIgnorable(c) ==
    \E k \in 1..Len(CaseIgnorableRuns) :
        c >= CaseIgnorableRuns[k][1] /\ c <= CaseIgnorableRuns[k][2]

\* the lower-case mapping of one code point that has a single one
SimpleLowerCase(c) ==
    IF c < 128 THEN (IF c \in 65..90 THEN c + 32 ELSE c)
    ELSE LET hits == { k \in 1..Len(LowerCaseRuns) :
                          /\ c >= LowerCaseRuns[k][1]
                          /\ c <= LowerCaseRuns[k][2]
                          /\ (c - LowerCaseRuns[k][1]) % LowerCaseRuns[k][3] = 0 }
         IN  IF hits = {} THEN c
             ELSE c + LowerCaseRuns[CHOOSE k \in hits : TRUE][4]

\* Final_Sigma: the capital sigma at i follows a cased letter and precedes
\* none, case-ignorable characters between them skipped
FinalSigma(s, i) ==
    /\ \E j \in 1..(i - 1) :
          /\ IsCased(s[j])
          /\ \A k \in (j + 1)..(i - 1) : IsCaseIgnorable(s[k])
    /\ ~\E j \in (i + 1)..Len(s) :
          /\ IsCased(s[j])
          /\ \A k \in (i + 1)..(j - 1) : IsCaseIgnorable(s[k])

\* what one character of s becomes: U+0130 gives "i" and the combining dot
\* above, a final capital sigma the final small sigma
LowerCaseAt(s, i) ==
    IF s[i] = 304 THEN <<105, 775>>
    ELSE IF s[i] = 931 /\ FinalSigma(s, i) THEN <<962>>
    ELSE << SimpleLowerCase(s[i]) >>

RECURSIVE LowerCaseFrom(_, _)
LowerCaseFrom(s, i) ==
    IF i > Len(s) THEN <<>> ELSE LowerCaseAt(s, i) \o LowerCaseFrom(s, i + 1)

\* String.prototype.toLowerCase
toLowerCase(s) == LowerCaseFrom(s, 1)

\* String.prototype.trim
trim(s) ==
    LET keep == {i \in 1..Len(s) : ~IsWhiteSpace(s[i])}
    IN  IF keep = {} THEN <<>>
        ELSE LET lo == CHOOSE i \in keep : \A j \in keep : i <= j
                 hi == CHOOSE i \in keep : \A j \in keep : j <= i
             IN  SubSeq(s, lo, hi)

\* sub occurs in s at position i
OccursAt(s, sub, i) ==
    /\ i >= 1
    /\ i + Len(sub) - 1 <= Len(s)
    /\ \A k \in 1..Len(sub) : s[i + k - 1] = sub[k]

\* String.prototype.includes
includes(s, sub) == \E i \in 1..(Len(s) + 1) : OccursAt(s, sub, i)

\* s.replace(/pat\n?/g, ""): every occurrence of pat, with the line feed
\* that may follow it, is removed, scanning from the left
RECURSIVE RemoveAll(_, _)
RemoveAll(s, pat) ==
    IF Len(s) = 0 THEN <<>>
    ELSE IF OccursAt(s, pat, 1)
         THEN LET n == IF Len(s) > Len(pat) /\ s[Len(pat) + 1] = 10
                       THEN Len(pat) + 1 ELSE Len(pat)
              IN  RemoveAll(SubSeq(s, n + 1, Len(s)), pat)
         ELSE <<s[1]>> \o RemoveAll(Tail(s), pat)

\* /a.*b/ : a, then any run of characters without a line terminator, then b
MatchesThenLater(s, a, b) ==
    \E i \in 1..Len(s) : \E j \in 1..Len(s) :
        /\ OccursAt(s, a, i)
        /\ j >= i + Len(a)
        /\ OccursAt(s, b, j)
        /\ \A k \in (i + Len(a))..(j - 1) : ~IsLineTerminator(s[k])

\* /^word/i
StartsWithIgnoreCase(s, word) == OccursAt(IgnoreCase(s), word, 1)

\* /^word\s/i
StartsWithWordSpace(s, word) ==
    /\ StartsWithIgnoreCase(s, word)
    /\ Len(s) > Len(word)
    /\ IsWhiteSpace(s[Len(word) + 1])

\* /\bword\b/i
ContainsWholeWord(s, word) ==
    \E i \in 1..Len(s) :
        /\ OccursAt(IgnoreCase(s), word, i)
        /\ (i = 1 \/ ~IsWordChar(s[i - 1]))
        /\ (i + Len(word) > Len(s) \/ ~IsWordChar(s[i + Len(word)]))


(***************************************************************************)
(* Literals of the source, as code points                                  *)
(***************************************************************************)
\* "GetLiveContext"
GetLiveContext == <<71, 101, 116, 76, 105, 118, 101, 67, 111, 110, 116, 101, 120, 116>>
\* "unknown"
UnknownTool == <<117, 110, 107, 110, 111, 119, 110>>
\* "我現在無法處理這個請求，請稍後再試。"
FallbackChinese ==
    <<25105, 29694, 22312, 28961, 27861, 34389, 29702, 36889, 20491, 35531,
      27714, 65292, 35531, 31245, 24460, 20877, 35430, 12290>>
\* "申し訳ございませんが、現在このリクエストを処理できません。"
FallbackJapanese ==
    <<30003, 12375, 35379, 12372, 12374, 12356, 12414, 12379, 12435, 12364,
      12289, 29694, 22312, 12371, 12398, 12522, 12463, 12456, 12473, 12488,
      12434, 20966, 29702, 12391, 12365, 12414, 12379, 12435, 12290>>
\* "I'm unable to process this request right now. Please try again later."
FallbackEnglish ==
    <<73, 39, 109, 32, 117, 110, 97, 98, 108, 101, 32, 116, 111, 32, 112, 114,
      111, 99, 101, 115, 115, 32, 116, 104, 105, 115, 32, 114, 101, 113, 117,
      101, 115, 116, 32, 114, 105, 103, 104, 116, 32, 110, 111, 119, 46, 32,
      80, 108, 101, 97, 115, 101, 32, 116, 114, 121, 32, 97, 103, 97, 105,
      110, 32, 108, 97, 116, 101, 114, 46>>

(***************************************************************************)
(* Input pools: the texts, tools and messages requests are drawn from      *)
(***************************************************************************)
\* "HassTurnOn", "RoomContext", "Foo"
HassTurnOn == <<72, 97, 115, 115, 84, 117, 114, 110, 79, 110>>
RoomContext == <<82, 111, 111, 109, 67, 111, 110, 116, 101, 120, 116>>
FooTool == <<70, 111, 111>>

\* tool catalogs (the names of the request's tools; order plays no part)
Catalogs ==
    { {}, {HassTurnOn, GetLiveContext}, {HassTurnOn, RoomContext} }

\* "is on", "hi", "是嗎", "あ", "あ燈", ""
UserTexts ==
    { <<105, 115, 32, 111, 110>>, <<104, 105>>, <<26159, 21966>>,
      <<12354>>, <<12354, 29128>>, <<>> }

\* a JSON value: a string (its text), a number (an integer), a boolean, null,
\* an array (its items) or an object (its members)
Value(t, v) == [type |-> t, value |-> v]

\* an argument mapping is the members of an object: <<key, value>> pairs in
\* the order the properties are enumerated
NoArguments == <<>>
\* {"area": "LR"}
AreaArguments == << << <<97, 114, 101, 97>>, Value("string", <<76, 82>>) >> >>

Msg(r, c, calls) == [role |-> r, content |-> c, tool_calls |-> calls]

\* the user turns, the tool result " Light on", and a system message "sys"
MessagePool ==
    { Msg("user", t, <<>>) : t \in UserTexts }
    \cup { Msg("tool", <<32, 76, 105, 103, 104, 116, 32, 111, 110>>, <<>>),
           Msg("system", <<115, 121, 115>>, <<>>) }

RECURSIVE SeqsUpTo(_, _)
SeqsUpTo(S, n) ==
    IF n = 0 THEN { <<>> }
    ELSE LET shorter == SeqsUpTo(S, n - 1)
         IN  shorter \cup { Append(q, x) : q \in shorter, x \in S }

RequestMessages == SeqsUpTo(MessagePool, MaxMessages)

\* config.modelId ("gpt-4o"), which the requests name as their model too
ModelId == "gpt-4o"

\* an OllamaChatRequest: has lists the fields the body carries
ChatRequestFor(h, modelName, messages, availableTools) ==
    [has |-> h, model |-> modelName, messages |-> messages, tools |-> availableTools]

\* a request that names the configured model
ChatRequest(h, messages, availableTools) ==
    ChatRequestFor(h, ModelId, messages, availableTools)

\* the request bodies: with a tool catalog (empty or not), without the tools
\* field, and without the messages field
ChatRequests ==
    { ChatRequest({"model", "messages", "tools"}, m, t) :
          m \in RequestMessages, t \in Catalogs }
    \cup { ChatRequest({"model", "messages"}, m, {}) : m \in RequestMessages }
    \cup { ChatRequest({"model", "tools"}, <<>>, t) : t \in Catalogs }
    \cup { ChatRequestFor({"model", "messages", "tools"}, "llama3",
                          << Msg("user", <<104, 105>>, <<>>) >>,
                          {HassTurnOn, GetLiveContext}),
           ChatRequestFor({"messages", "tools"}, "",
                          << Msg("user", <<104, 105>>, <<>>) >>,
                          {HassTurnOn, GetLiveContext}) }

\* the processingTimeMs arguments direct calls of the wire adapter are made
\* with (ms): none, a short one, and a primary exchange that ran out
ProcessingTimes == {0, 100, 50000}

(***************************************************************************)
(* JSON values the backend may emit, and the texts that carry them         *)
(***************************************************************************)
Json(k, h, a, tn, args, c) ==
    [kind |-> k, has |-> h, action |-> a, tool_name |-> tn,
     arguments |-> args, content |-> c]

JsonPool ==
    << \* 1: {"action":"tool_call","tool_name":"HassTurnOn","arguments":{"area":"LR"}}
       Json("object", {"action", "tool_name", "arguments"}, "tool_call",
            HassTurnOn, AreaArguments, <<>>),
       \* 2: {"action":"tool_call","tool_name":"Foo","arguments":{"area":"LR"}}
       Json("object", {"action", "tool_name", "arguments"}, "tool_call",
            FooTool, AreaArguments, <<>>),
       \* 3: {"action":"tool_call"}
       Json("object", {"action"}, "tool_call", <<>>, NoArguments, <<>>),
       \* 4: {"action":"answer","content":"ok"}
       Json("object", {"action", "content"}, "answer", <<>>, NoArguments, <<111, 107>>),
       \* 5: {"action":"chat","content":"hi"}
       Json("object", {"action", "content"}, "chat", <<>>, NoArguments, <<104, 105>>),
       \* 6: {"action":"reply","content":"hi"}
       Json("object", {"action", "content"}, "reply", <<>>, NoArguments, <<104, 105>>),
       \* 7: null
       Json("null", {}, "", <<>>, NoArguments, <<>>),
       \* 8: {"action":"tool_call","tool_name":"unknown","arguments":{"area":"LR"}}
       Json("object", {"action", "tool_name", "arguments"}, "tool_call",
            UnknownTool, AreaArguments, <<>>),
       \* 9: {"content":"hi"}
       Json("object", {"content"}, "", <<>>, NoArguments, <<104, 105>>) >>

\* "```json" and "```"
FenceJson == <<96, 96, 96, 106, 115, 111, 110>>
Fence == <<96, 96, 96>>

\* the texts of the assistant's reply: each JSON value alone, one in a
\* Markdown fence, one between blanks, two in a row, one after prose,
\* prose alone ("ok"), a blank text
BackendTexts ==
    { << -k >> : k \in 1..Len(JsonPool) }
    \cup { FenceJson \o <<10, -4, 10>> \o Fence,
           <<32, -5, 10>>,
           <<-5, 10, -5>>,
           <<111, 107, 32, -1>>,
           <<111, 107>>,
           <<32>> }

(***************************************************************************)
(* Context builder and context window functions                            *)
(***************************************************************************)
\* systemContext: msg.content + "\n" appended for every system message, in
\* order, then trimmed
RECURSIVE SystemContextRaw(_)
SystemContextRaw(messages) ==
    IF Len(messages) = 0 THEN <<>>
    ELSE (IF messages[1].role = "system" THEN messages[1].content \o <<10>> ELSE <<>>)
         \o SystemContextRaw(Tail(messages))

ExtractSystemContext(request) == trim(SystemContextRaw(request.messages))

\* a context builder that hands on request.tools as it is, undefined when
\* the request has no tools field
ExtractToolsUnguarded(request) ==
    [defined |-> "tools" \in request.has, value |-> request.tools]

\* availableTools: request.tools || []
ExtractTools(request) ==
    [defined |-> TRUE,
     value |-> IF "tools" \in request.has THEN request.tools ELSE {}]

\* a context builder that keeps only the user and assistant turns
ExtractDropsToolMessages(request) ==
    SelectSeq(request.messages, LAMBDA m : m.role \in {"user", "assistant"})

\* conversationHistory: the non-system messages of the request, in order
ExtractHistory(request) ==
    SelectSeq(request.messages, LAMBDA m : m.role # "system")

\* the ExtractionResult; has lists its defined fields
extractMessagesAndTools(request) ==
    [has |-> {"systemContext", "conversationHistory"}
             \cup (IF ExtractTools(request).defined THEN {"availableTools"} ELSE {}),
     systemContext |-> ExtractSystemContext(request),
     conversationHistory |-> ExtractHistory(request),
     availableTools |-> ExtractTools(request).value]

\* a getLastUserMessage that looks at the last message only
getLastMessageIfUser(conversationHistory) ==
    IF Len(conversationHistory) = 0 THEN <<>>
    ELSE IF conversationHistory[Len(conversationHistory)].role = "user"
         THEN conversationHistory[Len(conversationHistory)].content
         ELSE <<>>

\* ConversationHelper.getLastUserMessage
getLastUserMessage(conversationHistory) ==
    LET userMessages == SelectSeq(conversationHistory, LAMBDA m : m.role = "user")
    IN  IF Len(userMessages) = 0 THEN <<>>
        ELSE userMessages[Len(userMessages)].content

\* a scan from the head: the content of the first user entry
RECURSIVE getFirstUserRequest(_)
getFirstUserRequest(conversationHistory) ==
    IF Len(conversationHistory) = 0 THEN <<>>
    ELSE IF Head(conversationHistory).role = "user"
         THEN Head(conversationHistory).content
         ELSE getFirstUserRequest(Tail(conversationHistory))

\* ConversationHelper.getOriginalUserRequest: the loop from the last index
\* down to 0 returns msg.content || '' at the first user entry it meets,
\* and '' when it meets none
RECURSIVE getOriginalUserRequest(_)
getOriginalUserRequest(conversationHistory) ==
    LET i == Len(conversationHistory)
    IN  IF i = 0 THEN <<>>
        ELSE IF conversationHistory[i].role = "user"
             THEN (IF conversationHistory[i].content = <<>> THEN <<>>
                   ELSE conversationHistory[i].content)
             ELSE getOriginalUserRequest(SubSeq(conversationHistory, 1, i - 1))

(***************************************************************************)
(* Pure parts of OpencodeService.generateResponse                          *)
(***************************************************************************)
\* a tool result anywhere in the history taken for a trailing one
HasToolResultAnywhere(conversationHistory) ==
    \E i \in 1..Len(conversationHistory) : conversationHistory[i].role = "tool"

\* a tool result counted while it is one of the last two entries
HasRecentToolResult(conversationHistory) ==
    \E i \in 1..Len(conversationHistory) :
        /\ i >= Len(conversationHistory) - 1
        /\ conversationHistory[i].role = "tool"

\* lastMessage?.role === "tool"
HasToolResult(conversationHistory) ==
    /\ Len(conversationHistory) > 0
    /\ conversationHistory[Len(conversationHistory)].role = "tool"

\* the raw content of the trailing tool message (toolResult)
ToolResultContent(conversationHistory) ==
    conversationHistory[Len(conversationHistory)].content

\* response.content.trim().replace(/```json\n?/g, "").replace(/```\n?/g, "").trim()
CleanResponse(content) ==
    trim(RemoveAll(RemoveAll(trim(content), FenceJson), Fence))

\* JSON.parse succeeds on a text that is exactly one JSON value
JsonParses(cleaned) == Len(cleaned) = 1 /\ cleaned[1] < 0
JsonParse(cleaned) == JsonPool[0 - cleaned[1]]

ValidActions == {"tool_call", "answer", "chat"}

\* the error the try block raises on the text sendPrompt returned, "" if none
ParseError(content) ==
    LET cleaned == CleanResponse(content)
    IN  IF ~JsonParses(cleaned) THEN "SyntaxError"
        ELSE LET parsed == JsonParse(cleaned)
             IN  IF parsed.kind = "null" THEN "TypeError"
                 ELSE IF \/ "action" \notin parsed.has
                         \/ parsed.action = ""
                         \/ parsed.action \notin ValidActions
                      THEN "Invalid response action"
                      ELSE ""

Response(a, h, tn, args, c) ==
    [action |-> a, has |-> h, tool_name |-> tn, arguments |-> args, content |-> c]

NoResponse == Response("none", {}, <<>>, NoArguments, <<>>)

\* return parsed as UnifiedResponse
ParsedResponse(content) ==
    LET parsed == JsonParse(CleanResponse(content))
    IN  Response(parsed.action, parsed.has, parsed.tool_name, parsed.arguments,
                 parsed.content)

\* OpencodeService.isQueryRequest
isQueryRequest(userMessage) ==
    \/ MatchesThenLater(userMessage, <<26159>>, <<21966>>)              \* /是.*嗎/
    \/ MatchesThenLater(userMessage, <<29694, 22312>>, <<26159>>)       \* /現在.*是/
    \/ MatchesThenLater(userMessage, <<20160, 40636>>, <<29376, 24907>>) \* /什麼.*狀態/
    \/ OccursAt(userMessage, <<35531, 21839>>, 1)                       \* /^請問/
    \/ StartsWithWordSpace(userMessage, <<105, 115>>)                   \* /^is\s/i
    \/ StartsWithWordSpace(userMessage, <<97, 114, 101>>)               \* /^are\s/i
    \/ ContainsWholeWord(userMessage, <<115, 116, 97, 116, 117, 115>>)  \* /\bstatus\b/i
    \/ ContainsWholeWord(userMessage, <<115, 116, 97, 116, 101>>)       \* /\bstate\b/i
    \/ StartsWithIgnoreCase(userMessage, <<119, 104, 97, 116>>)         \* /^what/i

\* availableTools.some(name === "GetLiveContext" || lower(name).includes("context"))
hasGetLiveContext(availableTools) ==
    \E t \in availableTools :
        \/ t = GetLiveContext
        \/ includes(toLowerCase(t), <<99, 111, 110, 116, 101, 120, 116>>)

\* /[一-龥]/ and /[぀-ゟ゠-ヿ]/
hasChineseChars(userMessage) ==
    \E i \in 1..Len(userMessage) : userMessage[i] \in 19968..40869
hasJapaneseChars(userMessage) ==
    \E i \in 1..Len(userMessage) :
        userMessage[i] \in ((12352..12447) \cup (12448..12543))

\* OpencodeService.getFallbackChatResponse
getFallbackChatResponse(userMessage) ==
    IF hasChineseChars(userMessage) THEN FallbackChinese
    ELSE IF hasJapaneseChars(userMessage) THEN FallbackJapanese
    ELSE FallbackEnglish

\* strategy 2 without the look at the catalog
HeuristicIgnoresCatalog(userMessage, availableTools, hasToolResult) ==
    /\ isQueryRequest(userMessage)
    /\ ~hasToolResult

\* fallback strategy 2 applies
HeuristicApplies(userMessage, availableTools, hasToolResult) ==
    /\ isQueryRequest(userMessage)
    /\ hasGetLiveContext(availableTools)
    /\ ~hasToolResult

\* fallback strategies 2 and 3: the response and the name of the outcome
HeuristicOrChat(userMessage, availableTools, hasToolResult) ==
    IF HeuristicApplies(userMessage, availableTools, hasToolResult)
    THEN [response |-> Response("tool_call", {"action", "tool_name", "arguments"},
                                GetLiveContext, NoArguments, <<>>),
          outcome |-> "FALLBACK_HEURISTIC_TOOLCALL"]
    ELSE [response |-> Response("chat", {"action", "content"}, <<>>, NoArguments,
                                getFallbackChatResponse(userMessage)),
          outcome |-> "FALLBACK_CHAT"]

\* a generateAnswerFromToolResult that hands on the secondary text as it
\* came
AnswerUntrimmed(result, conversationHistory) ==
    IF result.kind = "return" THEN result.content
    ELSE ToolResultContent(conversationHistory)

\* what generateAnswerFromToolResult resolves with: the trimmed text the
\* secondary sendPrompt returned, or the raw tool result when it raised
AnswerFromToolResult(result, conversationHistory) ==
    IF result.kind = "return" THEN trim(result.content)
    ELSE ToolResultContent(conversationHistory)

(***************************************************************************)
(* Post-validation of the /api/chat handler                                *)
(***************************************************************************)
isValidTool(unifiedResponse, availableTools) ==
    /\ "tool_name" \in unifiedResponse.has
    /\ unifiedResponse.tool_name \in availableTools

IsNamedUnknown(unifiedResponse) ==
    /\ "tool_name" \in unifiedResponse.has
    /\ unifiedResponse.tool_name = UnknownTool

\* a handler that hands the engine's response on unchecked
PostValidateNothing(unifiedResponse, availableTools) == unifiedResponse

\* a handler that rewrites every tool_call outside the catalog, one already
\* named "unknown" included
PostValidateAllUnadvertised(unifiedResponse, availableTools) ==
    IF /\ unifiedResponse.action = "tool_call"
       /\ ~isValidTool(unifiedResponse, availableTools)
    THEN Response("tool_call", {"action", "tool_name", "arguments"},
                  UnknownTool, NoArguments, <<>>)
    ELSE unifiedResponse

PostValidate(unifiedResponse, availableTools) ==
    IF /\ unifiedResponse.action = "tool_call"
       /\ ~isValidTool(unifiedResponse, availableTools)
       /\ ~IsNamedUnknown(unifiedResponse)
    THEN Response("tool_call", {"action", "tool_name", "arguments"},
                  UnknownTool, NoArguments, <<>>)
    ELSE unifiedResponse

(***************************************************************************)
(* Wire adapter                                                            *)
(***************************************************************************)
\* a JavaScript value with what typeof gives for it
TypedValue(t, v) == [typeof |-> t, value |-> v]

\* an OllamaToolCall: function.name and function.arguments
ToolCall(name, args) == [function |-> [name |-> name, arguments |-> args]]

\* a count of nanoseconds, written millions * 10^6 + units with units below
\* 10^6: the products of the adapter leave the range of 32-bit integers
Long(millions, units) == [millions |-> millions, units |-> units]

\* a number n as a count
LongOf(n) == Long(n \div 1000000, n % 1000000)

\* n * 1_000_000
TimesMillion(n) == Long(n, 0)

\* a wire adapter that emits the arguments JSON-encoded (the text of v
\* stands for the string JSON.stringify gives)
convertStringifiesArguments(unifiedResponse, modelId, processingTimeMs, createdAt) ==
    [model |-> modelId,
     created_at |-> createdAt,
     message |->
        IF unifiedResponse.action = "tool_call"
        THEN Msg("assistant", <<>>,
                 << ToolCall(unifiedResponse.tool_name,
                             TypedValue("string", unifiedResponse.arguments)) >>)
        ELSE Msg("assistant", unifiedResponse.content, <<>>),
     done |-> TRUE,
     done_reason |-> "stop",
     total_duration |-> TimesMillion(processingTimeMs),
     eval_count |-> 1,
     eval_duration |-> TimesMillion(processingTimeMs)]

\* a wire adapter that takes "no content" for every falsy content and puts
\* a notice in its place
convertDefaultsEmptyContent(unifiedResponse, modelId, processingTimeMs, createdAt) ==
    [model |-> modelId,
     created_at |-> createdAt,
     message |->
        IF unifiedResponse.action = "tool_call"
        THEN Msg("assistant", <<>>,
                 << ToolCall(unifiedResponse.tool_name,
                             TypedValue("object", unifiedResponse.arguments)) >>)
        ELSE Msg("assistant",
                 IF unifiedResponse.content = <<>> THEN <<45>>
                 ELSE unifiedResponse.content, <<>>),
     done |-> TRUE,
     done_reason |-> "stop",
     total_duration |-> TimesMillion(processingTimeMs),
     eval_count |-> 1,
     eval_duration |-> TimesMillion(processingTimeMs)]

\* a wire adapter that reports the durations in milliseconds as measured
convertKeepsMilliseconds(unifiedResponse, modelId, processingTimeMs, createdAt) ==
    [model |-> modelId,
     created_at |-> createdAt,
     message |->
        IF unifiedResponse.action = "tool_call"
        THEN Msg("assistant", <<>>,
                 << ToolCall(unifiedResponse.tool_name,
                             TypedValue("object", unifiedResponse.arguments)) >>)
        ELSE Msg("assistant", unifiedResponse.content, <<>>),
     done |-> TRUE,
     done_reason |-> "stop",
     total_duration |-> LongOf(processingTimeMs),
     eval_count |-> 1,
     eval_duration |-> LongOf(processingTimeMs)]

\* convertUnifiedResponseToOllama: tool_call gives an assistant message
\* with empty content and one tool-call entry carrying the arguments
\* object; answer and chat give the content and no tool-call entry.
\* createdAt is the instant new Date() reads.
convertUnifiedResponseToOllama(unifiedResponse, modelId, processingTimeMs, createdAt) ==
    [model |-> modelId,
     created_at |-> createdAt,
     message |->
        IF unifiedResponse.action = "tool_call"
        THEN Msg("assistant", <<>>,
                 << ToolCall(unifiedResponse.tool_name,
                             TypedValue("object", unifiedResponse.arguments)) >>)
        ELSE Msg("assistant", unifiedResponse.content, <<>>),
     done |-> TRUE,
     done_reason |-> "stop",
     total_duration |-> TimesMillion(processingTimeMs),
     eval_count |-> 1,
     eval_duration |-> TimesMillion(processingTimeMs)]

\* convertErrorToOllama: the body of a 500 reply
convertErrorToOllama(error, modelId, createdAt) ==
    [model |-> modelId,
     created_at |-> createdAt,
     message |-> [role |-> "assistant", content |-> "Error: " \o error],
     done |-> TRUE,
     done_reason |-> "stop",
     total_duration |-> LongOf(0)]

\* no response body
NoBody ==
    [model |-> "", created_at |-> "", message |-> Msg("", <<>>, <<>>),
     done |-> FALSE, done_reason |-> "", total_duration |-> LongOf(0),
     eval_count |-> 0, eval_duration |-> LongOf(0)]

(***************************************************************************)
(* The backend's message lists, as session.messages returns them           *)
(***************************************************************************)
TextPart(t) == [type |-> "text", text |-> t]
ReasoningPart == [type |-> "reasoning", text |-> <<111, 107>>]
UserEntry == [role |-> "user", parts |-> << TextPart(<<104, 105>>) >>]
AssistantEntry(parts) == [role |-> "assistant", parts |-> parts]

\* a reply carrying each backend text; no message yet; the prompt alone; an
\* assistant entry without parts, with an empty text, with a text after a
\* reasoning part, with a text after an empty text part; a text carried only
\* by an earlier assistant entry; an assistant text followed by a user entry
PollLists ==
    { << UserEntry, AssistantEntry(<< TextPart(t) >>) >> : t \in BackendTexts }
    \cup { <<>>,
           << UserEntry >>,
           << UserEntry, AssistantEntry(<<>>) >>,
           << UserEntry, AssistantEntry(<< TextPart(<<>>) >>) >>,
           << UserEntry, AssistantEntry(<< ReasoningPart, TextPart(<< -5 >>) >>) >>,
           << UserEntry, AssistantEntry(<< TextPart(<<>>), TextPart(<< -5 >>) >>) >>,
           << UserEntry, AssistantEntry(<< TextPart(<< -5 >>) >>), AssistantEntry(<<>>) >>,
           << AssistantEntry(<< TextPart(<< -4 >>) >>), UserEntry >> }

\* the text one poll finds: the first text part of the last assistant
\* entry, <<>> when there is none or it is empty
LastAssistantText(data) ==
    LET assistantMsgs == SelectSeq(data, LAMBDA m : m.role = "assistant")
    IN  IF Len(assistantMsgs) = 0 THEN <<>>
        ELSE LET lastAssistant == assistantMsgs[Len(assistantMsgs)]
                 textParts == SelectSeq(lastAssistant.parts, LAMBDA q : q.type = "text")
             IN  IF Len(textParts) = 0 THEN <<>> ELSE textParts[1].text

(***************************************************************************)
(* ConversationHelper.buildToolSelectionContext                            *)
(***************************************************************************)
\* {"config": {"color": "red"}} and {"entity": "LR", "config": {...}}
NestedArguments ==
    << << <<99, 111, 110, 102, 105, 103>>,
          Value("object", << << <<99, 111, 108, 111, 114>>,
                                Value("string", <<114, 101, 100>>) >> >>) >> >>
MixedArguments ==
    << << <<101, 110, 116, 105, 116, 121>>, Value("string", <<76, 82>>) >> >>
    \o NestedArguments

\* the four lower-case hexadecimal digits of a code unit
HexDigit(d) == IF d < 10 THEN 48 + d ELSE 87 + d
Hex4(c) ==
    << HexDigit((c \div 4096) % 16), HexDigit((c \div 256) % 16),
       HexDigit((c \div 16) % 16), HexDigit(c % 16) >>

\* a surrogate that is not half of a pair
IsLoneSurrogate(s, i) ==
    \/ /\ s[i] \in 55296..56319
       /\ ~(i < Len(s) /\ s[i + 1] \in 56320..57343)
    \/ /\ s[i] \in 56320..57343
       /\ ~(i > 1 /\ s[i - 1] \in 55296..56319)

\* QuoteJSONString, one character: the two-character escapes, \uXXXX for
\* the other control characters and for lone surrogates
QuoteAt(s, i) ==
    LET c == s[i]
    IN  IF c = 34 THEN <<92, 34>>
        ELSE IF c = 92 THEN <<92, 92>>
        ELSE IF c = 8 THEN <<92, 98>>
        ELSE IF c = 9 THEN <<92, 116>>
        ELSE IF c = 10 THEN <<92, 110>>
        ELSE IF c = 12 THEN <<92, 102>>
        ELSE IF c = 13 THEN <<92, 114>>
        ELSE IF c < 32 \/ IsLoneSurrogate(s, i) THEN <<92, 117>> \o Hex4(c)
        ELSE <<c>>

RECURSIVE QuoteFrom(_, _)
QuoteFrom(s, i) ==
    IF i > Len(s) THEN <<>> ELSE QuoteAt(s, i) \o QuoteFrom(s, i + 1)

QuoteJSONString(s) == <<34>> \o QuoteFrom(s, 1) \o <<34>>

\* the decimal digits of a natural number
RECURSIVE Digits(_)
Digits(n) ==
    IF n < 10 THEN <<48 + n>> ELSE Digits(n \div 10) \o <<48 + (n % 10)>>

\* JSON.stringify of a JSON value, without indentation
RECURSIVE SerializeJSONValue(_)
SerializeJSONValue(v) ==
    IF v.type = "string" THEN QuoteJSONString(v.value)
    ELSE IF v.type = "number"
    THEN (IF v.value < 0 THEN <<45>> \o Digits(0 - v.value) ELSE Digits(v.value))
    ELSE IF v.type = "boolean"
    THEN (IF v.value THEN <<116, 114, 117, 101>> ELSE <<102, 97, 108, 115, 101>>)
    ELSE IF v.type = "null" THEN <<110, 117, 108, 108>>
    ELSE IF v.type = "array"
    THEN LET RECURSIVE Items(_)
             Items(i) ==
                 IF i > Len(v.value) THEN <<>>
                 ELSE (IF i > 1 THEN <<44>> ELSE <<>>)
                      \o SerializeJSONValue(v.value[i]) \o Items(i + 1)
         IN  <<91>> \o Items(1) \o <<93>>
    ELSE LET RECURSIVE Members(_)
             Members(i) ==
                 IF i > Len(v.value) THEN <<>>
                 ELSE (IF i > 1 THEN <<44>> ELSE <<>>)
                      \o QuoteJSONString(v.value[i][1]) \o <<58>>
                      \o SerializeJSONValue(v.value[i][2]) \o Members(i + 1)
         IN  <<123>> \o Members(1) \o <<125>>

\* JSON.stringify(toolCall.function.arguments) for an argument mapping
JSONstringify(args) == SerializeJSONValue(Value("object", args))

\* Array.prototype.slice(start) for a start that may be negative
slice(arr, start) ==
    LET from == IF start < 0
                THEN (IF Len(arr) + start > 0 THEN Len(arr) + start ELSE 0)
                ELSE (IF start < Len(arr) THEN start ELSE Len(arr))
    IN  SubSeq(arr, from + 1, Len(arr))

\* lines.join("\n")
RECURSIVE join(_)
join(lines) ==
    IF Len(lines) = 0 THEN <<>>
    ELSE IF Len(lines) = 1 THEN lines[1]
    ELSE lines[1] \o <<10>> \o join(Tail(lines))

\* "User: ", "Assistant: ", "Assistant: [Executed ", "\nRecent Conversation
\* Context:\n"
UserPrefix == <<85, 115, 101, 114, 58, 32>>
AssistantPrefix == <<65, 115, 115, 105, 115, 116, 97, 110, 116, 58, 32>>
ExecutedPrefix ==
    AssistantPrefix \o <<91, 69, 120, 101, 99, 117, 116, 101, 100, 32>>
ContextHeader ==
    <<10, 82, 101, 99, 101, 110, 116, 32, 67, 111, 110, 118, 101, 114, 115, 97,
      116, 105, 111, 110, 32, 67, 111, 110, 116, 101, 120, 116, 58, 10>>

\* the line one message of the window gives, "" for none
ContextLine(msg) ==
    IF msg.role = "user" THEN UserPrefix \o msg.content
    ELSE IF msg.role = "assistant"
    THEN IF Len(msg.tool_calls) > 0
         THEN LET toolCall == msg.tool_calls[1]
              IN  ExecutedPrefix \o toolCall.function.name \o <<40>>
                  \o JSONstringify(toolCall.function.arguments.value) \o <<41, 93>>
         ELSE IF msg.content # <<>> THEN AssistantPrefix \o msg.content ELSE <<>>
    ELSE <<>>

\* a rendering of the whole history, whatever maxMessages is
RenderWholeHistory(conversationHistory, maxMessages) ==
    LET lines == [i \in 1..Len(conversationHistory) |->
                      ContextLine(conversationHistory[i])]
        context == join(SelectSeq(lines, LAMBDA line : Len(line) > 0))
    IN  IF context # <<>> THEN ContextHeader \o context \o <<10>> ELSE <<>>

\* the window, rendered: slice(-maxMessages), map, filter, join, and the
\* header when a line remains
RenderContext(conversationHistory, maxMessages) ==
    LET recentHistory == slice(conversationHistory, 0 - maxMessages)
        lines == [i \in 1..Len(recentHistory) |-> ContextLine(recentHistory[i])]
        context == join(SelectSeq(lines, LAMBDA line : Len(line) > 0))
    IN  IF context # <<>> THEN ContextHeader \o context \o <<10>> ELSE <<>>

\* a buildToolSelectionContext without the early return for short histories
buildContextOfAnyLength(conversationHistory, maxMessages) ==
    RenderContext(conversationHistory, maxMessages)

\* ConversationHelper.buildToolSelectionContext
buildToolSelectionContext(conversationHistory, maxMessages) ==
    IF Len(conversationHistory) <= 1 THEN <<>>
    ELSE RenderContext(conversationHistory, maxMessages)

\* "Assistant: [Called ", "[Tool Result: "
CalledPrefix == AssistantPrefix \o <<91, 67, 97, 108, 108, 101, 100, 32>>
ToolResultPrefix ==
    <<91, 84, 111, 111, 108, 32, 82, 101, 115, 117, 108, 116, 58, 32>>

\* FormatHistoryOptions: has lists the fields that are defined
FormatOptions(fields, maxMessages, includeToolCalls, includeToolResults) ==
    [has |-> fields, maxMessages |-> maxMessages,
     includeToolCalls |-> includeToolCalls,
     includeToolResults |-> includeToolResults]

\* the line formatConversationHistory gives one message, "" for none
HistoryLine(msg, includeToolCalls, includeToolResults) ==
    IF msg.role = "user" THEN UserPrefix \o msg.content
    ELSE IF msg.role = "assistant"
    THEN IF Len(msg.tool_calls) > 0 /\ includeToolCalls
         THEN CalledPrefix \o msg.tool_calls[1].function.name \o <<93>>
         ELSE IF msg.content # <<>> THEN AssistantPrefix \o msg.content ELSE <<>>
    ELSE IF msg.role = "tool" /\ includeToolResults
    THEN ToolResultPrefix \o msg.content \o <<93>>
    ELSE <<>>

\* maxMessages ? history.slice(-maxMessages) : history, an undefined
\* maxMessages and 0 being falsy
UsesWindow(options) == "maxMessages" \in options.has /\ options.maxMessages # 0

\* ConversationHelper.formatConversationHistory; includeToolCalls is true
\* and includeToolResults false when the options leave them undefined
formatConversationHistory(history, options) ==
    LET includeToolCalls == IF "includeToolCalls" \in options.has
                            THEN options.includeToolCalls ELSE TRUE
        includeToolResults == IF "includeToolResults" \in options.has
                              THEN options.includeToolResults ELSE FALSE
        messagesToUse == IF UsesWindow(options)
                         THEN slice(history, 0 - options.maxMessages)
                         ELSE history
        lines == [i \in 1..Len(messagesToUse) |->
                      HistoryLine(messagesToUse[i], includeToolCalls,
                                  includeToolResults)]
    IN  join(SelectSeq(lines, LAMBDA line : Len(line) > 0))

(***************************************************************************)
(* What a call leaves in the array it is made on                           *)
(***************************************************************************)
\* arr after arr.splice(start): the elements from start on are taken out of
\* it
AfterSplice(arr, start) == SubSeq(arr, 1, Len(arr) - Len(slice(arr, start)))

\* arr after arr.slice(start): the elements are copied to a new array
AfterSlice(arr, start) == arr

\* arr after arr.filter(msg => msg.role === 'user'): the entries that pass
\* go to a new array, the callback reads msg.role
AfterFilter(arr) == arr

\* arr after arr.map(msg => ...): the lines go to a new array, the callback
\* reads msg.role, msg.content and msg.tool_calls
AfterMap(arr) == arr

\* conversationHistory after getLastUserMessage(conversationHistory)
getLastUserMessageLeaves(conversationHistory) == AfterFilter(conversationHistory)

\* conversationHistory after buildToolSelectionContext(conversationHistory,
\* maxMessages): map, filter and join are called on the slice
buildToolSelectionContextLeaves(conversationHistory, maxMessages) ==
    IF Len(conversationHistory) <= 1 THEN conversationHistory
    ELSE AfterSlice(conversationHistory, 0 - maxMessages)

\* history after formatConversationHistory(history, options): map is called
\* on the slice, or on history itself when there is no window
formatConversationHistoryLeaves(history, options) ==
    IF UsesWindow(options) THEN AfterSlice(history, 0 - options.maxMessages)
    ELSE AfterMap(history)

\* conversationHistory after the synchronous head of generateResponse:
\* buildToolSelectionContext(conversationHistory, 10), getLastUserMessage,
\* and a read of the last entry
generateResponseLeaves(conversationHistory) ==
    getLastUserMessageLeaves(
        buildToolSelectionContextLeaves(conversationHistory, 10))

\* conversationHistory after the synchronous head of
\* generateAnswerFromToolResult: a read of the last entry and
\* getLastUserMessage
generateAnswerFromToolResultLeaves(conversationHistory) ==
    getLastUserMessageLeaves(conversationHistory)

(***************************************************************************)
(* State                                                                   *)
(***************************************************************************)
VARIABLES
    client,         \* OpencodeService.client: "undefined", "client" or "null"
    pc,             \* where the request being handled stands
    exchange,       \* the sendPrompt call in progress: "none", "primary", "secondary"
    history,        \* conversationHistory of the request
    tools,          \* availableTools of the request (tool names)
    sessionLog,     \* the sessions created for the request and whether
                    \* the deletion of each was attempted
    bodyModel,      \* body.model of the request, "" when the body has none
    clock,          \* Date.now() - startTime of the handler, in ms
    elapsed,        \* Date.now() - startTime of the exchange, in ms
    polled,         \* the exchange has called session.messages
    messagesData,   \* messages.data of the exchange's latest poll
    submitPending,  \* the exchange's session.prompt call has not settled
    pending,        \* what the try block of sendPrompt returned or raised
    sendResult,     \* what sendPrompt returned or raised to its caller
    created,        \* the exchange's create call returned a session id
    deleteCalls,    \* session.delete calls made by the exchange
    deleteOutcome,  \* how the delete race ended
    creates,        \* session.create calls made for the request
    submits,        \* session.prompt calls made for the request
    primaryError,   \* the error the catch block of generateResponse caught
    secondaryError, \* the error generateAnswerFromToolResult caught
    answer,         \* what generateAnswerFromToolResult returned or raised
                    \* to generateResponse
    unified,        \* the UnifiedResponse generateResponse returned
    outcome,        \* the terminal state of the engine
    raised,         \* the error generateResponse raised, "" if none
    wire,           \* the UnifiedResponse handed to the wire adapter
    http,           \* the reply: status code and error text
    sent,           \* the reply: the OllamaChatResponse body of a 200
    applied,        \* the function a direct call was made to, "none" if none
    input,          \* the arguments of that call
    output,         \* what the call returned
    argument,       \* the conversation history handed to the call, as the
                    \* call left it; <<>> for a call that takes none
    xch,            \* concurrent sendPrompt invocations: the locals of each
    backend,        \* the sessions of the backend: ids handed out, live ones
    used,           \* the session calls made: <<invocation, call, session id>>
    life            \* the process: where start() and the shutdown handlers
                    \* stand, the server, and what was done to the client

exVars == <<elapsed, polled, messagesData, submitPending, pending, sendResult, created, deleteCalls, deleteOutcome>>
bodyVars == <<history, tools, bodyModel>>
reqVars == <<history, tools, bodyModel, sessionLog, clock>>
engVars == <<primaryError, secondaryError, answer, unified, outcome, raised>>
outVars == <<wire, http, sent>>
callVars == <<applied, input, output, argument>>
sessVars == <<xch, backend, used>>
lifeVars == <<life>>
progVars == <<client, pc, exchange, history, tools, bodyModel, sessionLog, clock, elapsed, polled, messagesData, submitPending,
              pending, sendResult, created, deleteCalls, deleteOutcome, creates,
              submits, primaryError, secondaryError, answer, unified, outcome,
              raised,
              wire, http, sent>>
vars == <<progVars, callVars, sessVars, lifeVars>>

Result(k, c, e) == [kind |-> k, content |-> c, error |-> e]
NoResult == Result("none", <<>>, "")
Returned(c) == Result("return", c, "")
Thrown(e) == Result("throw", <<>>, e)

NoReply == [code |-> 0, error |-> ""]

\* the error messages of the source
NotConnected == "OpencodeService not connected. Call connect() first."
CreateFailed == "Failed to create OpenCode session"
PromptTimeout == "session.prompt() timeout after 40s"
\* `OpenCode response timeout after ${maxWaitMs}ms`
ResponseTimeout(ms) == "OpenCode response timeout after " \o ToString(ms) \o "ms"
\* the TypeError of this.client.session when close() has set the client to
\* null
ClientIsNull == "Cannot read properties of null (reading 'session')"
\* errors the backend client raises
CreateError == "session.create error"
PromptError == "session.prompt error"
MessagesError == "session.messages error"

maxWaitMs == IF exchange = "primary" THEN PrimaryMaxWaitMs ELSE SecondaryMaxWaitMs

\* how long session.prompt may take to resolve: always less than its timeout
SubmitDelays == { d \in {0, TickMs, 3 * TickMs} : d < PromptTimeoutMs }

DeleteOutcomes == {"resolved", "rejected", "timeout"}

\* the session ids the backend hands out in a run: 1..MaxSessions
MaxSessions == 3

\* two requests in flight at once, each in a sendPrompt call of its own
Invocations == {"r1", "r2"}

\* options.maxWaitMs of a sendPrompt call: 50000 from generateResponse,
\* 10000 from generateAnswerFromToolResult
MaxWaits == {PrimaryMaxWaitMs, SecondaryMaxWaitMs}

\* what the backend does with the session an invocation creates: create
\* returns no id or rejects, prompt rejects or hangs past its timeout,
\* messages rejects, no text ever appears, a text appears
Fates == {"createNoId", "createThrows", "promptRejects", "promptTimeout",
          "messagesThrow", "noText", "text"}

\* the locals of a sendPrompt invocation: where it stands, its sessionId (0:
\* none), its maxWaitMs, whether it has polled, Date.now() - startTime in
\* ms, and what it returned or raised; fate is the backend's behaviour
\* towards the session it creates
Invocation(p, id, f, w, polledOnce, ms, res) ==
    [pc |-> p, sessionId |-> id, fate |-> f, maxWaitMs |-> w,
     polled |-> polledOnce, elapsed |-> ms, result |-> res]
NoInvocation == Invocation("idle", 0, "text", PrimaryMaxWaitMs, FALSE, 0, "")

NoSessions ==
    [nextId |-> 0, live |-> {}, owner |-> [id \in 1..MaxSessions |-> "none"]]

\* the signals delivered to the process in a run
MaxSignals == 2

\* requests being handled at once
MaxInFlight == 2

\* the process before start() runs: no server, no shutdown handler called,
\* createOpencodeClient never called, the client never set to null
NotStarted ==
    [phase |-> "start", server |-> "none",
     handlers |-> [i \in 1..MaxSignals |-> "none"],
     inflight |-> 0, connects |-> 0, opens |-> 0, closeCalls |-> 0, closes |-> 0,
     sends |-> {}]

\* no request is being handled, no direct call has been made, no session
\* exists at the backend and the process has not started
Quiet ==
    /\ pc = "idle"
    /\ exchange = "none"
    /\ history = <<>>
    /\ tools = {}
    /\ sessionLog = <<>>
    /\ bodyModel = ""
    /\ clock = 0
    /\ elapsed = 0
    /\ polled = FALSE
    /\ messagesData = <<>>
    /\ submitPending = FALSE
    /\ pending = NoResult
    /\ sendResult = NoResult
    /\ created = FALSE
    /\ deleteCalls = 0
    /\ deleteOutcome = "none"
    /\ creates = 0
    /\ submits = 0
    /\ primaryError = ""
    /\ secondaryError = ""
    /\ answer = NoResult
    /\ unified = NoResponse
    /\ outcome = "none"
    /\ raised = ""
    /\ wire = NoResponse
    /\ http = NoReply
    /\ sent = NoBody
    /\ applied = "none"
    /\ input = <<>>
    /\ output = <<>>
    /\ argument = <<>>
    /\ xch = [r \in Invocations |-> NoInvocation]
    /\ backend = NoSessions
    /\ used = {}
    /\ life = NotStarted

\* the service as constructed: the client field has no value
Init ==
    /\ client = "undefined"
    /\ Quiet

\* the service once start() has awaited connect(), as the server that takes
\* requests finds it
ConcInit ==
    /\ client = "client"
    /\ Quiet

(***************************************************************************)
(* Client lifecycle: OpencodeService.connect and close, public methods of  *)
(* the shared service that run whenever they are called, between any two   *)
(* turns of a request being handled.                                       *)
(***************************************************************************)
Connect ==
    /\ client' = IF client = "client" THEN client ELSE "client"
    /\ UNCHANGED <<pc, exchange, reqVars, exVars, creates, submits, engVars, outVars>>
    /\ UNCHANGED <<callVars, sessVars, lifeVars>>

Close ==
    /\ client' = IF client = "client" THEN "null" ELSE client
    /\ UNCHANGED <<pc, exchange, reqVars, exVars, creates, submits, engVars, outVars>>
    /\ UNCHANGED <<callVars, sessVars, lifeVars>>

(***************************************************************************)
(* POST /api/chat: validation and extraction, up to the engine call        *)
(***************************************************************************)
\* a handler that turns away a request without tools
ReceiveChatRequiresTools(body) ==
    /\ pc = "idle"
    /\ IF "messages" \notin body.has \/ Len(body.messages) = 0
       THEN /\ history' = <<>>
            /\ tools' = {}
            /\ http' = [code |-> 400,
                        error |-> "messages field is required and must not be empty"]
            /\ pc' = "done"
            /\ exchange' = "none"
       ELSE LET extraction == extractMessagesAndTools(body)
                userMessage == getLastUserMessage(extraction.conversationHistory)
            IN  /\ history' = getLastUserMessageLeaves(extraction.conversationHistory)
                /\ tools' = extraction.availableTools
                /\ IF userMessage = <<>>
                   THEN /\ http' = [code |-> 400,
                                    error |-> "At least one user message is required"]
                        /\ pc' = "done"
                        /\ exchange' = "none"
                   ELSE IF extraction.availableTools = {}
                   THEN /\ http' = [code |-> 400, error |-> "No tools provided"]
                        /\ pc' = "done"
                        /\ exchange' = "none"
                   ELSE /\ http' = NoReply
                        /\ pc' = "send"
                        /\ exchange' = "primary"
    /\ bodyModel' = IF "model" \in body.has THEN body.model ELSE ""
    /\ sessionLog' = <<>>
    /\ clock' = 0
    /\ UNCHANGED <<client, exVars, creates, submits, engVars, wire, sent>>
    /\ UNCHANGED <<callVars, sessVars, lifeVars>>

\* validation: a body without messages, or with none, is turned away; so is
\* one whose last user message is empty (!userMessage), a history without a
\* user turn included
ReceiveChat(body) ==
    /\ pc = "idle"
    /\ IF "messages" \notin body.has \/ Len(body.messages) = 0
       THEN /\ history' = <<>>
            /\ tools' = {}
            /\ http' = [code |-> 400,
                        error |-> "messages field is required and must not be empty"]
            /\ pc' = "done"
            /\ exchange' = "none"
       ELSE LET extraction == extractMessagesAndTools(body)
                userMessage == getLastUserMessage(extraction.conversationHistory)
            IN  /\ history' = getLastUserMessageLeaves(extraction.conversationHistory)
                /\ tools' = extraction.availableTools
                /\ IF userMessage = <<>>
                   THEN /\ http' = [code |-> 400,
                                    error |-> "At least one user message is required"]
                        /\ pc' = "done"
                        /\ exchange' = "none"
                   ELSE /\ http' = NoReply
                        /\ pc' = "send"
                        /\ exchange' = "primary"
    /\ bodyModel' = IF "model" \in body.has THEN body.model ELSE ""
    /\ sessionLog' = <<>>
    /\ clock' = 0
    /\ UNCHANGED <<client, exVars, creates, submits, engVars, wire, sent>>
    /\ UNCHANGED <<callVars, sessVars, lifeVars>>

(***************************************************************************)
(* OpencodeService.sendPrompt                                              *)
(***************************************************************************)
\* a sendPrompt that keeps the first session it created and uses it again
CachedSession(by, id) == [exchange |-> by, id |-> 1, deleteAttempted |-> FALSE]

\* a session of the request: the exchange that created it, the id the
\* backend gave it (the n-th create call of the request gets session n),
\* and whether the finally block has run its session.delete statement on it
OpenedSession(by, id) == [exchange |-> by, id |-> id, deleteAttempted |-> FALSE]

\* the caller of sendPrompt runs up to the call (generateResponse for the
\* primary exchange, generateAnswerFromToolResult for the secondary one),
\* then the not-connected guard and the session.create call
SendPromptStart ==
    /\ pc = "send"
    /\ elapsed' = 0
    /\ polled' = FALSE
    /\ messagesData' = <<>>
    /\ submitPending' = FALSE
    /\ pending' = NoResult
    /\ created' = FALSE
    /\ deleteCalls' = 0
    /\ deleteOutcome' = "none"
    /\ IF client # "client"
       THEN /\ sendResult' = Thrown(NotConnected)
            /\ pc' = "returned"
            /\ UNCHANGED creates
       ELSE /\ sendResult' = NoResult
            /\ pc' = "create"
            /\ creates' = creates + 1
    /\ history' = IF exchange = "primary" THEN generateResponseLeaves(history)
                  ELSE generateAnswerFromToolResultLeaves(history)
    /\ UNCHANGED <<client, exchange, tools, bodyModel, sessionLog, clock, submits,
                   engVars, outVars>>
    /\ UNCHANGED <<callVars, sessVars, lifeVars>>

\* a finally block without its inner try/catch: a failed cleanup replaces
\* the result of the try block
FinallyResultMasked(result, how) ==
    IF how = "resolved" THEN result
    ELSE [kind |-> "throw", content |-> <<>>, error |-> "Session delete failed"]

\* what sendPrompt hands its caller once the finally block has run
FinallyResult(result, how) == result

\* cleanup placed after the poll loop instead of in a finally block: the
\* session is deleted only when the try block returns
EnterFinallyOnReturnOnly(result, log) ==
    /\ pending' = result
    /\ elapsed' = 0
    /\ IF client = "client" /\ result.kind = "return"
       THEN /\ deleteCalls' = deleteCalls + 1
            /\ sessionLog' = [log EXCEPT ![Len(log)].deleteAttempted = TRUE]
            /\ pc' = "cleanup"
            /\ UNCHANGED <<sendResult, deleteOutcome>>
       ELSE IF client = "client"
       THEN /\ sessionLog' = log
            /\ pc' = "cleanup"
            /\ UNCHANGED <<deleteCalls, sendResult, deleteOutcome>>
       ELSE /\ sessionLog' = log
            /\ deleteOutcome' = "threw"
            /\ sendResult' = FinallyResult(result, "threw")
            /\ pc' = "returned"
            /\ UNCHANGED deleteCalls

\* the finally block is entered with the try block's result, log being the
\* sessions opened so far.  With a client, session.delete is called and
\* raced against the cleanup timeout.  With the client set to null, the
\* delete statement throws inside the inner try before anything is called,
\* the catch logs it like any failed cleanup, and sendPrompt settles in the
\* same turn.  The clock of the
\* try block is not read again (no caller reads the elapsed field).
EnterFinally(result, log) ==
    /\ pending' = result
    /\ elapsed' = 0
    /\ IF client = "client"
       THEN /\ deleteCalls' = deleteCalls + 1
            /\ sessionLog' = [log EXCEPT ![Len(log)].deleteAttempted = TRUE]
            /\ pc' = "cleanup"
            /\ UNCHANGED <<sendResult, deleteOutcome>>
       ELSE /\ sessionLog' = [log EXCEPT ![Len(log)].deleteAttempted = TRUE]
            /\ deleteOutcome' = "threw"
            /\ sendResult' = FinallyResult(result, "threw")
            /\ pc' = "returned"
            /\ UNCHANGED deleteCalls

\* the loop condition, read now ms after startTime, and what follows it in
\* the same turn: the session.messages call, the TypeError of that call
\* expression when the client is null, or the timeout error
PollLoop(now) ==
    IF now < maxWaitMs /\ client = "client"
    THEN /\ polled' = TRUE
         /\ elapsed' = now
         /\ pc' = "messages"
         /\ UNCHANGED <<pending, deleteCalls, sessionLog, sendResult, deleteOutcome>>
    ELSE /\ EnterFinally(IF now < maxWaitMs THEN Thrown(ClientIsNull)
                         ELSE Thrown(ResponseTimeout(maxWaitMs)),
                         sessionLog)
         /\ UNCHANGED polled

\* create returns a session id: startTime is taken and session.prompt is
\* called; with the client set to null the call expression throws inside
\* the try block
CreateReturns ==
    /\ pc = "create"
    /\ created' = TRUE
    /\ IF client = "client"
       THEN /\ sessionLog' = Append(sessionLog, OpenedSession(exchange, creates))
            /\ submits' = submits + 1
            /\ submitPending' = TRUE
            /\ elapsed' = 0
            /\ pc' = "submit"
            /\ UNCHANGED <<pending, deleteCalls, sendResult, deleteOutcome>>
       ELSE /\ EnterFinally(Thrown(ClientIsNull),
                            Append(sessionLog, OpenedSession(exchange, creates)))
            /\ UNCHANGED <<submits, submitPending>>
    /\ UNCHANGED <<client, exchange, bodyVars, clock, polled, messagesData,
                   creates, engVars, outVars>>
    /\ UNCHANGED <<callVars, sessVars, lifeVars>>

\* create returns without data.id
CreateNoId ==
    /\ pc = "create"
    /\ sendResult' = Thrown(CreateFailed)
    /\ pc' = "returned"
    /\ UNCHANGED <<client, exchange, reqVars, elapsed, polled, messagesData, submitPending, pending,
                   created, deleteCalls, deleteOutcome, creates, submits, engVars, outVars>>
    /\ UNCHANGED <<callVars, sessVars, lifeVars>>

\* create rejects
CreateThrows ==
    /\ pc = "create"
    /\ sendResult' = Thrown(CreateError)
    /\ pc' = "returned"
    /\ UNCHANGED <<client, exchange, reqVars, elapsed, polled, messagesData, submitPending, pending,
                   created, deleteCalls, deleteOutcome, creates, submits, engVars, outVars>>
    /\ UNCHANGED <<callVars, sessVars, lifeVars>>

\* create never settles: nothing bounds the await
CreateHangs ==
    /\ pc = "create"
    /\ pc' = "hung_create"
    /\ UNCHANGED <<client, exchange, reqVars, exVars, creates, submits, engVars, outVars>>
    /\ UNCHANGED <<callVars, sessVars, lifeVars>>

\* a sendPrompt that does not await the prompt race: the poll loop starts
\* while session.prompt is still outstanding
SubmitNotAwaited(d) ==
    /\ pc = "submit"
    /\ submitPending' = submitPending
    /\ clock' = clock + d
    /\ PollLoop(d)
    /\ UNCHANGED <<client, exchange, bodyVars, messagesData, created,
                   creates, submits, engVars, outVars>>
    /\ UNCHANGED <<callVars, sessVars, lifeVars>>

\* session.prompt resolves d ms after startTime, before its timeout; the
\* first loop condition and the first session.messages call follow
SubmitResolves(d) ==
    /\ pc = "submit"
    /\ submitPending' = FALSE
    /\ clock' = clock + d
    /\ PollLoop(d)
    /\ UNCHANGED <<client, exchange, bodyVars, messagesData, created,
                   creates, submits, engVars, outVars>>
    /\ UNCHANGED <<callVars, sessVars, lifeVars>>

\* session.prompt rejects
SubmitRejects ==
    /\ pc = "submit"
    /\ EnterFinally(Thrown(PromptError), sessionLog)
    /\ submitPending' = FALSE
    /\ UNCHANGED <<client, exchange, bodyVars, clock, polled, messagesData, created,
                   creates, submits, engVars, outVars>>
    /\ UNCHANGED <<callVars, sessVars, lifeVars>>

\* session.prompt has not settled when the 40 s timer fires: the race
\* rejects and the call is left outstanding (nothing cancels it)
SubmitTimeout ==
    /\ pc = "submit"
    /\ clock' = clock + PromptTimeoutMs
    /\ EnterFinally(Thrown(PromptTimeout), sessionLog)
    /\ UNCHANGED <<client, exchange, bodyVars, polled, messagesData, submitPending, created,
                   creates, submits, engVars, outVars>>
    /\ UNCHANGED <<callVars, sessVars, lifeVars>>

\* how long a session.messages call takes to settle
MessagesMs == TickMs - PollIntervalMs

\* the outstanding session.messages call returns data: the text is looked
\* for, and the try block returns it or the sleep of the iteration starts
PollMessages(data) ==
    /\ pc = "messages"
    /\ messagesData' = data
    /\ clock' = clock + MessagesMs
    /\ LET assistantContent == LastAssistantText(data)
       IN  IF assistantContent # <<>>
           THEN EnterFinally(Returned(assistantContent), sessionLog)
           ELSE /\ elapsed' = elapsed + MessagesMs
                /\ pc' = "sleep"
                /\ UNCHANGED <<pending, deleteCalls, sessionLog, sendResult, deleteOutcome>>
    /\ UNCHANGED <<client, exchange, bodyVars, polled, submitPending, created,
                   creates, submits, engVars, outVars>>
    /\ UNCHANGED <<callVars, sessVars, lifeVars>>

\* the outstanding session.messages call rejects
PollThrows ==
    /\ pc = "messages"
    /\ clock' = clock + MessagesMs
    /\ EnterFinally(Thrown(MessagesError), sessionLog)
    /\ UNCHANGED <<client, exchange, bodyVars, polled, messagesData, submitPending, created,
                   creates, submits, engVars, outVars>>
    /\ UNCHANGED <<callVars, sessVars, lifeVars>>

\* session.messages never settles: nothing bounds the await
PollHangs ==
    /\ pc = "messages"
    /\ pc' = "hung_messages"
    /\ UNCHANGED <<client, exchange, reqVars, elapsed, polled, messagesData, submitPending, pending,
                   sendResult, created, deleteCalls, deleteOutcome, creates, submits,
                   engVars, outVars>>
    /\ UNCHANGED <<callVars, sessVars, lifeVars>>

\* the sleep of an iteration is over: the loop condition is read again
PollSleepOver ==
    /\ pc = "sleep"
    /\ clock' = clock + PollIntervalMs
    /\ PollLoop(elapsed + PollIntervalMs)
    /\ UNCHANGED <<client, exchange, bodyVars, messagesData, submitPending, created,
                   creates, submits, engVars, outVars>>
    /\ UNCHANGED <<callVars, sessVars, lifeVars>>

\* the delete race settles: the call resolves, rejects, or the 5 s timer fires
DeleteSettles(how) ==
    /\ pc = "cleanup"
    /\ deleteOutcome' = how
    /\ sendResult' = FinallyResult(pending, how)
    /\ clock' = clock + (IF how = "timeout" THEN DeleteTimeoutMs ELSE 0)
    /\ pc' = "returned"
    /\ UNCHANGED <<client, exchange, bodyVars, sessionLog, elapsed, polled, messagesData,
                   submitPending, pending, created, deleteCalls, creates, submits,
                   engVars, outVars>>
    /\ UNCHANGED <<callVars, sessVars, lifeVars>>

(***************************************************************************)
(* OpencodeService.generateResponse, from the return of sendPrompt on      *)
(***************************************************************************)
\* the locals of a finished sendPrompt call are gone once its caller has
\* taken the result
ExchangeOver ==
    /\ elapsed' = 0
    /\ polled' = FALSE
    /\ messagesData' = <<>>
    /\ submitPending' = FALSE
    /\ pending' = NoResult
    /\ sendResult' = NoResult
    /\ created' = FALSE
    /\ deleteCalls' = 0
    /\ deleteOutcome' = "none"

\* a catch clause that takes only the errors of parsing and validation
CatchesOnlyMalformed(err) ==
    err \in {"SyntaxError", "TypeError", "Invalid response action"}

\* the catch clause of generateResponse takes every error of its try block
CatchesError(err) == TRUE

\* a generateAnswerFromToolResult that lets the error of sendPrompt escape
AnswerRethrows(err) == FALSE

\* the catch clause of generateAnswerFromToolResult takes every error of
\* the secondary sendPrompt
AnswerCatchesError(err) == TRUE

\* the error of the primary try block: what sendPrompt raised, or what
\* parsing and validating its text raises; "" when the block returns
PrimaryTryError ==
    IF sendResult.kind = "throw" THEN sendResult.error
    ELSE ParseError(sendResult.content)

\* the primary sendPrompt has returned or raised: parse and validate, or
\* enter the fallback chain
PrimaryReturns ==
    /\ pc = "returned"
    /\ exchange = "primary"
    /\ LET err == PrimaryTryError
           userMessage == getLastUserMessage(history)
           hasToolResult == HasToolResult(history)
           last == HeuristicOrChat(userMessage, tools, hasToolResult)
       IN  IF err = ""
           THEN /\ unified' = ParsedResponse(sendResult.content)
                /\ outcome' = "SUCCESS"
                /\ pc' = "respond"
                /\ UNCHANGED <<exchange, primaryError, raised>>
           ELSE IF ~CatchesError(err)
           THEN /\ raised' = err
                /\ pc' = "respond"
                /\ UNCHANGED <<exchange, primaryError, unified, outcome>>
           ELSE IF hasToolResult
           THEN /\ primaryError' = err
                /\ exchange' = "secondary"
                /\ pc' = "send"
                /\ UNCHANGED <<unified, outcome, raised>>
           ELSE /\ primaryError' = err
                /\ unified' = last.response
                /\ outcome' = last.outcome
                /\ pc' = "respond"
                /\ UNCHANGED <<exchange, raised>>
    /\ ExchangeOver
    /\ UNCHANGED <<client, reqVars, creates, submits, secondaryError, answer,
                   outVars>>
    /\ UNCHANGED <<callVars, sessVars, lifeVars>>

\* the secondary sendPrompt has returned or raised: generateAnswerFromToolResult
\* resumes and settles with the trimmed text, or with the raw tool result
\* from its catch clause
SecondaryReturns ==
    /\ pc = "returned"
    /\ exchange = "secondary"
    /\ answer' = IF sendResult.kind = "throw" /\ ~AnswerCatchesError(sendResult.error)
                 THEN Thrown(sendResult.error)
                 ELSE Returned(AnswerFromToolResult(sendResult, history))
    /\ secondaryError' = IF sendResult.kind = "throw" THEN sendResult.error ELSE ""
    /\ pc' = "answered"
    /\ ExchangeOver
    /\ UNCHANGED <<client, exchange, reqVars, creates, submits,
                   primaryError, unified, outcome, raised, outVars>>
    /\ UNCHANGED <<callVars, sessVars, lifeVars>>

\* generateResponse resumes with what generateAnswerFromToolResult settled
\* with: fallback strategy 1 returns the Answer, or strategies 2 and 3
\* follow an error
AnswerReturns ==
    /\ pc = "answered"
    /\ LET userMessage == getLastUserMessage(history)
           last == HeuristicOrChat(userMessage, tools, HasToolResult(history))
       IN  IF answer.kind = "throw"
           THEN /\ unified' = last.response
                /\ outcome' = last.outcome
           ELSE /\ unified' = Response("answer", {"action", "content"}, <<>>,
                                       NoArguments, answer.content)
                /\ outcome' = "FALLBACK_ANSWER"
    /\ answer' = NoResult
    /\ pc' = "respond"
    /\ UNCHANGED <<client, exchange, reqVars, exVars, creates, submits,
                   primaryError, secondaryError, raised, outVars>>
    /\ UNCHANGED <<callVars, sessVars, lifeVars>>

(***************************************************************************)
(* POST /api/chat, from the return of the engine on                        *)
(***************************************************************************)
\* body.model || config.modelId
ReplyModel == IF bodyModel # "" THEN bodyModel ELSE ModelId

\* the handler resumes with what the engine returned or raised.  The
\* processing time is what the handler's clock reads; the instant the
\* adapter stamps the reply with is written "now": nothing the handler does
\* depends on it
Respond ==
    /\ pc = "respond"
    /\ IF raised # ""
       THEN /\ http' = [code |-> 500, error |-> raised]
            /\ sent' = convertErrorToOllama(raised, ReplyModel, "now")
            /\ UNCHANGED wire
       ELSE /\ wire' = PostValidate(unified, tools)
            /\ sent' = convertUnifiedResponseToOllama(PostValidate(unified, tools),
                                                      ReplyModel, clock, "now")
            /\ http' = [code |-> 200, error |-> ""]
    /\ pc' = "done"
    /\ UNCHANGED <<client, exchange, reqVars, exVars, creates, submits, engVars>>
    /\ UNCHANGED <<callVars, sessVars, lifeVars>>

\* the reply is sent and the request's state is dropped
Finish ==
    /\ pc = "done"
    /\ pc' = "idle"
    /\ exchange' = "none"
    /\ history' = <<>>
    /\ tools' = {}
    /\ sessionLog' = <<>>
    /\ bodyModel' = ""
    /\ clock' = 0
    /\ elapsed' = 0
    /\ polled' = FALSE
    /\ messagesData' = <<>>
    /\ submitPending' = FALSE
    /\ pending' = NoResult
    /\ sendResult' = NoResult
    /\ created' = FALSE
    /\ deleteCalls' = 0
    /\ deleteOutcome' = "none"
    /\ creates' = 0
    /\ submits' = 0
    /\ primaryError' = ""
    /\ secondaryError' = ""
    /\ answer' = NoResult
    /\ unified' = NoResponse
    /\ outcome' = "none"
    /\ raised' = ""
    /\ wire' = NoResponse
    /\ http' = NoReply
    /\ sent' = NoBody
    /\ UNCHANGED client
    /\ UNCHANGED <<callVars, sessVars, lifeVars>>

Next ==
    \/ Connect
    \/ Close
    \/ \E body \in ChatRequests : ReceiveChat(body)
    \/ SendPromptStart
    \/ CreateReturns
    \/ CreateNoId
    \/ CreateThrows
    \/ CreateHangs
    \/ \E d \in SubmitDelays : SubmitResolves(d)
    \/ SubmitRejects
    \/ SubmitTimeout
    \/ \E data \in PollLists : PollMessages(data)
    \/ PollThrows
    \/ PollHangs
    \/ PollSleepOver
    \/ \E how \in DeleteOutcomes : DeleteSettles(how)
    \/ PrimaryReturns
    \/ SecondaryReturns
    \/ AnswerReturns
    \/ Respond
    \/ Finish

Spec == Init /\ [][Next]_vars

\* every continuation of the request that is ready runs: the event loop
\* starves none.  A backend call that never settles is a step of its own
\* (CreateHangs, PollHangs), after which nothing of the exchange is enabled.
\* Nothing makes connect() or close() be called.
FairSpec == Spec /\ WF_vars(Next /\ client' = client)

(***************************************************************************)
(* The process: start() connects and listens; each SIGTERM or SIGINT runs  *)
(* the shutdown handler, which awaits server.close(), then the service's   *)
(* close(), then exits.  Whether server.close() waits for handlers still   *)
(* running is the framework's doing: it may resolve either way.            *)
(***************************************************************************)
\* a connect that makes a new client on every call
connectAlwaysCreates(c) == [client |-> "client", created |-> TRUE]

\* OpencodeService.connect: the client after the call, and whether
\* createOpencodeClient was called
connect(c) ==
    IF c = "client" THEN [client |-> c, created |-> FALSE]
    ELSE [client |-> "client", created |-> TRUE]

\* OpencodeService.close: the client after the call
close(c) == IF c = "client" THEN "null" ELSE c

\* OpencodeService.isConnected: this.client !== null
isConnected(c) == c # "null"

\* the opencode field of the /health reply
HealthOpencode(c) == IF isConnected(c) THEN "connected" ELSE "disconnected"

\* the guard of sendPrompt: the error it throws, "" when it goes on to
\* session.create
sendPromptGuard(c) == IF c # "client" THEN NotConnected ELSE ""

\* the variables of the request being handled, which the process steps
\* leave alone
handlerVars == <<pc, exchange, reqVars, exVars, creates, submits, engVars, outVars>>

Running == life.phase \notin {"start", "exited"}

\* a connect() call: the one of start(), or a further one while the
\* process serves
LifeConnect ==
    /\ life.phase \in {"start", "ready"}
    /\ life.connects < 2
    /\ client' = connect(client).client
    /\ life' = [life EXCEPT !.phase = IF life.phase = "start" THEN "connected"
                                      ELSE life.phase,
                            !.connects = life.connects + 1,
                            !.opens = IF connect(client).created THEN life.opens + 1
                                      ELSE life.opens]
    /\ UNCHANGED <<handlerVars, callVars, sessVars>>

\* createServer and server.listen succeed
LifeListen ==
    /\ life.phase = "connected"
    /\ life' = [life EXCEPT !.phase = "ready", !.server = "listening"]
    /\ UNCHANGED <<progVars, callVars, sessVars>>

\* createServer or server.listen fails: the catch of start() exits
LifeListenFails ==
    /\ life.phase = "connected"
    /\ life' = [life EXCEPT !.phase = "exited"]
    /\ UNCHANGED <<progVars, callVars, sessVars>>

\* a request reaches a handler of the listening server
LifeRequest ==
    /\ Running
    /\ life.server = "listening"
    /\ life.inflight < MaxInFlight
    /\ life' = [life EXCEPT !.inflight = life.inflight + 1]
    /\ UNCHANGED <<progVars, callVars, sessVars>>

\* a handler's engine calls sendPrompt: the guard throws or session.create
\* is called
LifeSendPrompt ==
    /\ Running
    /\ life.inflight > 0
    /\ life' = [life EXCEPT !.sends = life.sends \cup
                    { <<client, IF sendPromptGuard(client) # ""
                                THEN sendPromptGuard(client) ELSE "create">> }]
    /\ UNCHANGED <<progVars, callVars, sessVars>>

\* a handler replies
LifeReply ==
    /\ Running
    /\ life.inflight > 0
    /\ life' = [life EXCEPT !.inflight = life.inflight - 1]
    /\ UNCHANGED <<progVars, callVars, sessVars>>

\* a signal arrives and its shutdown handler calls server.close()
LifeSignal(i) ==
    /\ life.phase \in {"ready", "shutdown"}
    /\ life.handlers[i] = "none"
    /\ life' = [life EXCEPT !.phase = "shutdown",
                            !.handlers[i] = "closing server",
                            !.server = IF life.server = "listening" THEN "closing"
                                       ELSE life.server]
    /\ UNCHANGED <<progVars, callVars, sessVars>>

\* the server has closed
LifeServerCloses ==
    /\ Running
    /\ life.server = "closing"
    /\ life' = [life EXCEPT !.server = "closed"]
    /\ UNCHANGED <<progVars, callVars, sessVars>>

\* await server.close() returns in a shutdown handler, which calls close()
\* on the service
LifeCloseClient(i) ==
    /\ Running
    /\ life.handlers[i] = "closing server"
    /\ life.server = "closed"
    /\ client' = close(client)
    /\ life' = [life EXCEPT !.handlers[i] = "client closed",
                            !.closeCalls = life.closeCalls + 1,
                            !.closes = IF close(client) # client THEN life.closes + 1
                                       ELSE life.closes]
    /\ UNCHANGED <<handlerVars, callVars, sessVars>>

\* server.close() rejects in a shutdown handler: its catch exits
LifeServerCloseFails(i) ==
    /\ Running
    /\ life.handlers[i] = "closing server"
    /\ life' = [life EXCEPT !.phase = "exited"]
    /\ UNCHANGED <<progVars, callVars, sessVars>>

\* process.exit(0) at the end of a shutdown handler
LifeExit(i) ==
    /\ Running
    /\ life.handlers[i] = "client closed"
    /\ life' = [life EXCEPT !.phase = "exited"]
    /\ UNCHANGED <<progVars, callVars, sessVars>>

LifeNext ==
    \/ LifeConnect
    \/ LifeListen
    \/ LifeListenFails
    \/ LifeRequest
    \/ LifeSendPrompt
    \/ LifeReply
    \/ LifeServerCloses
    \/ \E i \in 1..MaxSignals :
           \/ LifeSignal(i)
           \/ LifeCloseClient(i)
           \/ LifeServerCloseFails(i)
           \/ LifeExit(i)

LifeSpec == Init /\ [][LifeNext]_vars

(***************************************************************************)
(* Concurrent requests: two sendPrompt invocations on the one connected    *)
(* client, the turns of the two interleaved in any order.  Each is the     *)
(* primary or the secondary exchange of its request, with the maxWaitMs of *)
(* that exchange; its session.prompt call, when it resolves, does so at    *)
(* once.  The backend hands out a fresh id with every session it creates   *)
(* and rejects calls on a session that no longer exists.                   *)
(***************************************************************************)
\* a sendPrompt that keeps the session id in a field of the shared service
\* (the id of the session created last) instead of a local
SharedSessionId(r) == backend.nextId

\* the sessionId local of invocation r
SessionOf(r) == xch[r].sessionId

\* what the backend does with a call on session id: the fate of the
\* invocation that created it, "gone" when the session does not exist
Behaviour(id) ==
    IF id \notin backend.live THEN "gone" ELSE xch[backend.owner[id]].fate

\* the try block of invocation r is left with res: the finally block calls
\* session.delete on the invocation's session
XEnterFinally(r, res) ==
    /\ xch' = [xch EXCEPT ![r].pc = "cleanup", ![r].result = res]
    /\ used' = used \cup { <<r, "delete", SessionOf(r)>> }

\* the loop condition of invocation r, read now ms after its startTime: the
\* next session.messages call on its session, or the timeout error
XPollLoop(r, now) ==
    IF now < xch[r].maxWaitMs
    THEN /\ xch' = [xch EXCEPT ![r].pc = "messages", ![r].polled = TRUE,
                               ![r].elapsed = now]
         /\ used' = used \cup { <<r, "messages", SessionOf(r)>> }
    ELSE XEnterFinally(r, ResponseTimeout(xch[r].maxWaitMs))

\* a sendPrompt call with maxWaitMs w starts: the not-connected guard, then
\* the session.create call
XStart(r, f, w) ==
    /\ xch[r].pc = "idle"
    /\ backend.nextId + Cardinality({ q \in Invocations : xch[q].pc = "create" })
           < MaxSessions
    /\ xch' = [xch EXCEPT ![r] = IF sendPromptGuard(client) # ""
                                 THEN Invocation("done", 0, f, w, FALSE, 0,
                                                 sendPromptGuard(client))
                                 ELSE Invocation("create", 0, f, w, FALSE, 0, "")]
    /\ used' = { u \in used : u[1] # r }
    /\ UNCHANGED <<progVars, callVars, lifeVars, backend>>

\* session.create settles: it rejects, returns no id, or returns the id of
\* a new session, on which session.prompt is called
XCreate(r) ==
    /\ xch[r].pc = "create"
    /\ IF xch[r].fate = "createThrows"
       THEN /\ xch' = [xch EXCEPT ![r].pc = "done", ![r].result = CreateError]
            /\ UNCHANGED <<backend, used>>
       ELSE IF xch[r].fate = "createNoId"
       THEN /\ xch' = [xch EXCEPT ![r].pc = "done", ![r].result = CreateFailed]
            /\ UNCHANGED <<backend, used>>
       ELSE LET id == backend.nextId + 1
            IN  /\ backend' = [nextId |-> id,
                               live |-> backend.live \cup {id},
                               owner |-> [backend.owner EXCEPT ![id] = r]]
                /\ xch' = [xch EXCEPT ![r].pc = "submit", ![r].sessionId = id]
                /\ used' = used \cup { <<r, "create", id>>, <<r, "prompt", id>> }
    /\ UNCHANGED <<progVars, callVars, lifeVars>>

\* the race of session.prompt with the 40 s timer settles: the call rejects,
\* the timer fires, or the call resolves and the poll loop starts
XSubmit(r) ==
    /\ xch[r].pc = "submit"
    /\ LET b == Behaviour(SessionOf(r))
       IN  IF b \in {"gone", "promptRejects"}
           THEN XEnterFinally(r, PromptError)
           ELSE IF b = "promptTimeout"
           THEN XEnterFinally(r, PromptTimeout)
           ELSE XPollLoop(r, 0)
    /\ UNCHANGED <<progVars, callVars, lifeVars, backend>>

\* the outstanding session.messages call settles: it rejects, returns the
\* text, or returns none and the sleep of the iteration starts
XPoll(r) ==
    /\ xch[r].pc = "messages"
    /\ LET b == Behaviour(SessionOf(r))
       IN  IF b \in {"gone", "messagesThrow"}
           THEN XEnterFinally(r, MessagesError)
           ELSE IF b = "text"
           THEN XEnterFinally(r, "return")
           ELSE /\ xch' = [xch EXCEPT ![r].pc = "sleep",
                                      ![r].elapsed = xch[r].elapsed + MessagesMs]
                /\ UNCHANGED used
    /\ UNCHANGED <<progVars, callVars, lifeVars, backend>>

\* the sleep of an iteration is over: the loop condition is read again
XSleepOver(r) ==
    /\ xch[r].pc = "sleep"
    /\ XPollLoop(r, xch[r].elapsed + PollIntervalMs)
    /\ UNCHANGED <<progVars, callVars, lifeVars, backend>>

\* the race of session.delete with the 5 s timer settles and sendPrompt
\* returns or raises what the try block did.  A delete that resolves has
\* removed the session.
XDelete(r, how) ==
    /\ xch[r].pc = "cleanup"
    /\ backend' = IF how = "resolved"
                  THEN [backend EXCEPT !.live = backend.live \ {SessionOf(r)}]
                  ELSE backend
    /\ xch' = [xch EXCEPT ![r].pc = "done"]
    /\ UNCHANGED <<progVars, callVars, lifeVars, used>>

\* the request is answered
XFinish(r) ==
    /\ xch[r].pc = "done"
    /\ xch' = [xch EXCEPT ![r].pc = "idle"]
    /\ UNCHANGED <<progVars, callVars, lifeVars, backend, used>>

ConcNext ==
    \E r \in Invocations :
        \/ \E f \in Fates : \E w \in MaxWaits : XStart(r, f, w)
        \/ XCreate(r)
        \/ XSubmit(r)
        \/ XPoll(r)
        \/ XSleepOver(r)
        \/ \E how \in DeleteOutcomes : XDelete(r, how)
        \/ XFinish(r)

ConcSpec == ConcInit /\ [][ConcNext]_vars

(***************************************************************************)
(* Direct calls to the pure functions (the wire adapter, the context       *)
(* builder, the context window functions), as their unit tests make them:  *)
(* one call at a time on an argument drawn from the pools below            *)
(***************************************************************************)
\* longest message list handed to a direct call
MaxHistory == 3

\* the UnifiedResponse values handed to the wire adapter
UnifiedResponses ==
    { Response("tool_call", {"action", "tool_name", "arguments"}, tn, args, <<>>) :
          tn \in {HassTurnOn, GetLiveContext, UnknownTool, FooTool},
          args \in {NoArguments, AreaArguments, NestedArguments, MixedArguments} }
    \cup { Response(a, {"action", "content"}, <<>>, NoArguments, c) :
               a \in {"answer", "chat"},
               c \in {<<>>, <<111, 107>>, <<26159, 21966>>, <<32, 111, 107, 10>>} }

ModelIds == {ModelId, "llama3"}
Instants == {"2026-01-01T00:00:00.000Z", "2026-01-01T00:00:01.000Z"}

\* messages of every role: user turns ("hi", "", "あ燈"), an assistant turn
\* with a tool call, an assistant turn "ok", a tool result " Light on",
\* system messages "sys" and " s2 "
CallMessages ==
    { Msg("user", <<104, 105>>, <<>>),
      Msg("user", <<>>, <<>>),
      Msg("user", <<12354, 29128>>, <<>>),
      Msg("assistant", <<>>,
          << ToolCall(HassTurnOn, TypedValue("object", AreaArguments)) >>),
      Msg("assistant", <<111, 107>>, <<>>),
      Msg("tool", <<32, 76, 105, 103, 104, 116, 32, 111, 110>>, <<>>),
      Msg("system", <<115, 121, 115>>, <<>>),
      Msg("system", <<32, 115, 50, 32>>, <<>>) }

CallRequests ==
    { ChatRequest({"model", "messages", "tools"}, m, t) :
          m \in SeqsUpTo(CallMessages, MaxHistory),
          t \in {{}, {HassTurnOn, GetLiveContext}} }
    \cup { ChatRequest({"model", "messages"}, m, {}) :
               m \in SeqsUpTo(CallMessages, MaxHistory) }

CallHistories ==
    SeqsUpTo({ m \in CallMessages : m.role # "system" }, MaxHistory)

\* values of the maxMessages argument: the default 10, windows shorter than
\* the history, 0 and a negative one
WindowSizes == {10, 2, 1, 0, -1}

\* the options handed to formatConversationHistory: none (every field
\* undefined), and every choice of defined fields with a window of 2 or 0;
\* an undefined field is written with the value its default gives
OptionsPool ==
    { o \in { FormatOptions(fields, maxMessages, includeToolCalls,
                            includeToolResults) :
                  fields \in SUBSET {"maxMessages", "includeToolCalls",
                                     "includeToolResults"},
                  maxMessages \in {2, 0},
                  includeToolCalls \in BOOLEAN, includeToolResults \in BOOLEAN } :
          /\ ("maxMessages" \notin o.has => o.maxMessages = 0)
          /\ ("includeToolCalls" \notin o.has => o.includeToolCalls)
          /\ ("includeToolResults" \notin o.has => ~o.includeToolResults) }

CallInit == Init

CallConvert(unifiedResponse, modelId, processingTimeMs, createdAt) ==
    /\ applied = "none"
    /\ applied' = "convertUnifiedResponseToOllama"
    /\ input' = [unifiedResponse |-> unifiedResponse, modelId |-> modelId,
                 processingTimeMs |-> processingTimeMs, createdAt |-> createdAt]
    /\ output' = convertUnifiedResponseToOllama(unifiedResponse, modelId,
                                                processingTimeMs, createdAt)
    /\ argument' = <<>>
    /\ UNCHANGED <<progVars, sessVars, lifeVars>>

CallExtract(request) ==
    /\ applied = "none"
    /\ applied' = "extractMessagesAndTools"
    /\ input' = request
    /\ output' = extractMessagesAndTools(request)
    /\ argument' = <<>>
    /\ UNCHANGED <<progVars, sessVars, lifeVars>>

CallGetLastUserMessage(conversationHistory) ==
    /\ applied = "none"
    /\ applied' = "getLastUserMessage"
    /\ input' = conversationHistory
    /\ output' = getLastUserMessage(conversationHistory)
    /\ argument' = getLastUserMessageLeaves(conversationHistory)
    /\ UNCHANGED <<progVars, sessVars, lifeVars>>

CallGetOriginalUserRequest(conversationHistory) ==
    /\ applied = "none"
    /\ applied' = "getOriginalUserRequest"
    /\ input' = conversationHistory
    /\ output' = getOriginalUserRequest(conversationHistory)
    /\ argument' = conversationHistory
    /\ UNCHANGED <<progVars, sessVars, lifeVars>>

CallBuildToolSelectionContext(conversationHistory, maxMessages) ==
    /\ applied = "none"
    /\ applied' = "buildToolSelectionContext"
    /\ input' = [conversationHistory |-> conversationHistory,
                 maxMessages |-> maxMessages]
    /\ output' = buildToolSelectionContext(conversationHistory, maxMessages)
    /\ argument' = buildToolSelectionContextLeaves(conversationHistory, maxMessages)
    /\ UNCHANGED <<progVars, sessVars, lifeVars>>

CallFormatConversationHistory(conversationHistory, options) ==
    /\ applied = "none"
    /\ applied' = "formatConversationHistory"
    /\ input' = [history |-> conversationHistory, options |-> options]
    /\ output' = formatConversationHistory(conversationHistory, options)
    /\ argument' = formatConversationHistoryLeaves(conversationHistory, options)
    /\ UNCHANGED <<progVars, sessVars, lifeVars>>

\* the call is over; the next one starts from nothing
CallOver ==
    /\ applied # "none"
    /\ applied' = "none"
    /\ input' = <<>>
    /\ output' = <<>>
    /\ argument' = <<>>
    /\ UNCHANGED <<progVars, sessVars, lifeVars>>

CallNext ==
    \/ \E unifiedResponse \in UnifiedResponses : \E modelId \in ModelIds :
       \E processingTimeMs \in ProcessingTimes : \E createdAt \in Instants :
           CallConvert(unifiedResponse, modelId, processingTimeMs, createdAt)
    \/ \E request \in CallRequests : CallExtract(request)
    \/ \E conversationHistory \in CallHistories :
           CallGetLastUserMessage(conversationHistory)
    \/ \E conversationHistory \in CallHistories :
           CallGetOriginalUserRequest(conversationHistory)
    \/ \E conversationHistory \in CallHistories : \E maxMessages \in WindowSizes :
           CallBuildToolSelectionContext(conversationHistory, maxMessages)
    \/ \E conversationHistory \in CallHistories : \E options \in OptionsPool :
           CallFormatConversationHistory(conversationHistory, options)
    \/ CallOver

CallSpec == CallInit /\ [][CallNext]_vars

(***************************************************************************)
(* The handler, the engine and the helpers together: chat requests handled *)
(* as in Spec, and direct calls of the helpers while no request is being   *)
(* handled.  A direct call is synchronous: no turn of a request runs       *)
(* before it is over.                                                      *)
(***************************************************************************)
WholeNext ==
    \/ applied = "none" /\ Next
    \/ pc = "idle" /\ CallNext

WholeSpec == Init /\ [][WholeNext]_vars

(***************************************************************************)
(* Properties                                                              *)
(***************************************************************************)
\* the engine has returned or raised and the handler has not yet replied
EngineDone == pc = "respond"

\* the last history entry is a tool-role message (stated on the history,
\* apart from the engine's own test)
EndsInToolResult ==
    Len(history) > 0 /\ history[Len(history)].role = "tool"

\* the errors of an exchange that could not start
StartErrors == {NotConnected, CreateFailed, CreateError}
CreateErrors == {CreateFailed, CreateError}
\* the errors of an exchange that started and failed
ExchangeErrors ==
    {PromptError, PromptTimeout, MessagesError, ClientIsNull,
     ResponseTimeout(PrimaryMaxWaitMs), ResponseTimeout(SecondaryMaxWaitMs)}
\* the errors of a returned text that does not decode to a decision
MalformedErrors == {"SyntaxError", "TypeError", "Invalid response action"}

FallbackOutcomes ==
    {"FALLBACK_ANSWER", "FALLBACK_HEURISTIC_TOOLCALL", "FALLBACK_CHAT"}

\* C1: when the primary exchange got its session (client connected, create
\* returned an id), whatever then fails (submission timeout, response
\* timeout, a submit or poll error, malformed text, invalid action), the
\* engine ends in one of the four outcomes with one UnifiedResponse whose
\* action is tool_call, answer or chat, and raises nothing.
C1_EngineAlwaysResponds ==
    (EngineDone /\ primaryError \notin StartErrors) =>
        /\ raised = ""
        /\ outcome \in {"SUCCESS"} \cup FallbackOutcomes
        /\ unified.action \in ValidActions
        /\ (outcome = "SUCCESS") = (primaryError = "")
        /\ (outcome = "FALLBACK_ANSWER" => unified.action = "answer")
        /\ (outcome = "FALLBACK_HEURISTIC_TOOLCALL" => unified.action = "tool_call")
        /\ (outcome = "FALLBACK_CHAT" => unified.action = "chat")

\* a submission timeout of the primary exchange ended in a fallback response
C1_Witness ==
    /\ EngineDone
    /\ primaryError = PromptTimeout
    /\ outcome = "FALLBACK_CHAT"
    /\ unified.action = "chat"

\* C2: with a history ending in a tool result, a primary exchange that
\* fails in any way yields an Answer; nothing is raised.
C2_ToolResultFallbackAnswers ==
    (EngineDone /\ EndsInToolResult /\ (primaryError # "" \/ raised # "")) =>
        /\ raised = ""
        /\ unified.action = "answer"
        /\ "content" \in unified.has
        /\ outcome = "FALLBACK_ANSWER"

\* the primary text was malformed, the secondary exchange failed too, and
\* the answer is the raw tool result
C2_Witness ==
    /\ EngineDone
    /\ EndsInToolResult
    /\ primaryError = "SyntaxError"
    /\ secondaryError = ResponseTimeout(SecondaryMaxWaitMs)
    /\ unified.action = "answer"
    /\ unified.content = history[Len(history)].content

\* the times the delete statement of the finally block was executed: the
\* session.delete calls made, and the statement throwing before the call on
\* a client that close() has set to null meanwhile
DeleteAttempts == deleteCalls + (IF deleteOutcome = "threw" THEN 1 ELSE 0)

\* C3: an exchange whose create call returned a session id has attempted
\* the deletion of its session exactly once by the time sendPrompt returns
\* or raises, on every path; nothing is attempted before the try block is
\* left, and nothing when create failed.  (An attempt is the delete
\* statement of the finally block being executed; it reaches the backend
\* unless close() has taken the client away during the exchange.)
C3_DeleteExactlyOnce ==
    /\ DeleteAttempts <= 1
    /\ (DeleteAttempts = 1 => created)
    /\ (pc \in {"create", "submit", "messages", "sleep", "hung_create", "hung_messages"}
            => DeleteAttempts = 0)
    /\ (pc \in {"cleanup", "returned"} /\ created => DeleteAttempts = 1)
    /\ (pc = "returned" /\ ~created => DeleteAttempts = 0)
    /\ (pc = "cleanup" => deleteCalls = 1)
    /\ (pc = "returned" /\ created /\ sessionLog # <<>>
            => sessionLog[Len(sessionLog)].deleteAttempted)

\* sendPrompt raised the submission timeout and delete had been called once
C3_Witness ==
    /\ pc = "returned"
    /\ created
    /\ sendResult = Thrown(PromptTimeout)
    /\ deleteCalls = 1

\* C4: what sendPrompt returns or raises is what its try block returned or
\* raised, however the delete race ended; a cleanup failure is never what
\* the caller sees.
C4_CleanupNeverMasks ==
    (pc = "returned" /\ created) =>
        /\ deleteOutcome \in DeleteOutcomes \cup {"threw"}
        /\ sendResult = pending
        /\ sendResult.kind \in {"return", "throw"}
        /\ (sendResult.kind = "throw" => sendResult.error \in ExchangeErrors)
        /\ (sendResult.kind = "return" => sendResult.content # <<>>)

\* the delete call hung past the cleanup timeout and the content came back
C4_Witness ==
    /\ pc = "returned"
    /\ deleteOutcome = "timeout"
    /\ sendResult.kind = "return"
    /\ sendResult = pending

\* C5: on a client that was never connected the engine raises the
\* not-connected error, runs no fallback and returns no UnifiedResponse.
C5_NotConnectedRaises ==
    (EngineDone /\ client = "undefined") =>
        /\ raised = NotConnected
        /\ outcome = "none"
        /\ unified = NoResponse

\* C6: when session creation fails (create raises, or returns no id) the
\* engine raises that error: no fallback stage runs, no response is built.
C6_CreateFailurePropagates ==
    [][(/\ pc = "returned"
        /\ pc' # pc
        /\ sendResult.kind = "throw"
        /\ sendResult.error \in CreateErrors)
          => (/\ pc' = "respond"
              /\ raised' = sendResult.error
              /\ outcome' = "none"
              /\ unified' = NoResponse)]_vars

\* the primary exchange failed at the backend (not on the text it returned)
BackendFailed == primaryError \in (StartErrors \cup ExchangeErrors)

\* the apology template c belongs to a script of the message
TemplateMatchesScript(c, userMessage) ==
    \/ c = FallbackChinese /\ hasChineseChars(userMessage)
    \/ c = FallbackJapanese /\ hasJapaneseChars(userMessage)
    \/ /\ c = FallbackEnglish
       /\ ~hasChineseChars(userMessage)
       /\ ~hasJapaneseChars(userMessage)

\* C7 as stated: when every backend exchange fails and the history does not
\* end in a tool result, the engine returns a Chat carrying the apology
\* template of the message's script, for every message and every catalog.
C7_UnavailableAlwaysChats ==
    (EngineDone /\ ~EndsInToolResult /\ BackendFailed) =>
        /\ unified.action = "chat"
        /\ TemplateMatchesScript(unified.content, getLastUserMessage(history))

\* C7 amended: in that case the engine returns the heuristic ToolCall
\* GetLiveContext with empty arguments when the message matches a query
\* pattern and the catalog advertises a context tool, and otherwise a Chat
\* carrying the apology template of a script of the message.
C7_UnavailableChatsOrQueries ==
    (EngineDone /\ ~EndsInToolResult /\ BackendFailed) =>
        LET userMessage == getLastUserMessage(history)
        IN  /\ raised = ""
            /\ IF isQueryRequest(userMessage) /\ hasGetLiveContext(tools)
               THEN /\ outcome = "FALLBACK_HEURISTIC_TOOLCALL"
                    /\ unified.action = "tool_call"
                    /\ unified.tool_name = GetLiveContext
                    /\ unified.arguments = NoArguments
               ELSE /\ outcome = "FALLBACK_CHAT"
                    /\ unified.action = "chat"
                    /\ TemplateMatchesScript(unified.content, userMessage)

\* create raised, the message is in kana, and the Japanese apology came back
C7_Witness ==
    /\ EngineDone
    /\ ~EndsInToolResult
    /\ primaryError = CreateError
    /\ unified.action = "chat"
    /\ unified.content = FallbackJapanese

\* C8: every ToolCall handed to the wire adapter names a tool of the
\* request's catalog or "unknown"; a ToolCall of the engine that names
\* neither is handed on as "unknown" with empty arguments, whether the
\* primary path or a fallback produced it.
C8_WireToolCallsAreAdvertised ==
    (pc = "done" /\ http.code = 200) =>
        /\ (wire.action = "tool_call") = (unified.action = "tool_call")
        /\ (wire.action = "tool_call" =>
               /\ "tool_name" \in wire.has
               /\ (wire.tool_name \in tools \/ wire.tool_name = UnknownTool))
        /\ ((/\ unified.action = "tool_call"
             /\ ~("tool_name" \in unified.has /\ unified.tool_name \in tools)
             /\ ~("tool_name" \in unified.has /\ unified.tool_name = UnknownTool))
            => (/\ wire.tool_name = UnknownTool
                /\ wire.arguments = NoArguments))

\* the backend named the tool "Foo", absent from the catalog, with
\* arguments; the wire adapter got "unknown" with none
C8_Witness ==
    /\ pc = "done"
    /\ outcome = "SUCCESS"
    /\ unified.action = "tool_call"
    /\ unified.tool_name = FooTool
    /\ unified.arguments # NoArguments
    /\ tools # {}
    /\ wire.tool_name = UnknownTool
    /\ wire.arguments = NoArguments

\* C9 as stated: an engine invocation whose sendPrompt found the client
\* connected opens one session, on every path.
C9_ExactlyOneSession ==
    (EngineDone /\ primaryError # NotConnected) => creates = 1

\* C9 amended: an engine invocation runs the primary exchange and, exactly
\* when that failed and the history ends in a tool result, one secondary
\* exchange; each exchange that finds the client connected makes one
\* create call and at most one submit call (none when its create failed),
\* so a request opens at most two sessions and the successful path exactly
\* one.  An exchange that finds no client makes no call.
C9_AtMostTwoSessions ==
    /\ creates <= 2
    /\ submits <= creates
    /\ (exchange \in {"none", "primary"} => creates <= 1)
    /\ (EngineDone =>
           /\ creates = (IF primaryError # NotConnected THEN 1 ELSE 0)
                       + (IF /\ primaryError # ""
                             /\ EndsInToolResult
                             /\ secondaryError # NotConnected
                          THEN 1 ELSE 0)
           /\ (outcome = "SUCCESS" => creates = 1 /\ submits = 1))

\* both exchanges ran: the primary timed out, the secondary answered
C9_Witness ==
    /\ EngineDone
    /\ EndsInToolResult
    /\ primaryError = ResponseTimeout(PrimaryMaxWaitMs)
    /\ secondaryError = ""
    /\ creates = 2
    /\ submits = 2

\* an exchange has started and sendPrompt has neither returned nor raised
InExchange ==
    pc \in {"create", "submit", "messages", "sleep", "cleanup", "hung_create",
           "hung_messages"}

\* C10: every exchange terminates, whatever the backend does, a remote
\* call that never responds included.
C10_ExchangeTerminates == InExchange ~> (pc = "returned")

\* C11 as stated: within an exchange the calls are strictly sequential
\* (create, submit, polls, delete): no poll is issued before the submit call
\* has completed, no submit or poll after the delete has been started, and
\* the delete is never started while the submit call is outstanding.
C11_StrictlySequential ==
    /\ (pc = "submit" => created /\ ~polled /\ deleteCalls = 0)
    /\ (pc \in {"messages", "sleep", "hung_messages"}
            => created /\ polled /\ ~submitPending /\ deleteCalls = 0)
    /\ (polled => ~submitPending)
    /\ (deleteCalls > 0 => pc \in {"cleanup", "returned"})
    /\ (deleteCalls > 0 => ~submitPending)

\* C11 amended: as above, except that after the submission timeout has
\* fired the delete is started while the abandoned submit call may still be
\* outstanding; on every other path the submit call has completed before
\* the delete starts.
C11_SequentialButSubmitTimeout ==
    /\ (pc = "submit" => created /\ ~polled /\ deleteCalls = 0)
    /\ (pc \in {"messages", "sleep", "hung_messages"}
            => created /\ polled /\ ~submitPending /\ deleteCalls = 0)
    /\ (polled => ~submitPending)
    /\ (deleteCalls > 0 => pc \in {"cleanup", "returned"})
    /\ (deleteCalls > 0 /\ submitPending =>
           /\ ~polled
           /\ pending = Thrown(PromptTimeout))

\* the submission timeout fired: delete was started with the submit call
\* outstanding and no poll made
C11_Witness ==
    /\ pc = "cleanup"
    /\ deleteCalls = 1
    /\ submitPending
    /\ ~polled
    /\ pending = Thrown(PromptTimeout)

\* the history of the request has a user-role message
HasUserTurn == \E i \in 1..Len(history) : history[i].role = "user"

\* the request was turned away by validation
Rejected == pc = "done" /\ http.code = 400

\* C12: a request is turned away by validation, with no backend session
\* created for it, exactly when its history has no user-role message; a
\* request whose history has a user-role message passes validation and
\* reaches the engine.
C12_RejectedIffNoUserTurn ==
    (pc # "idle") =>
        /\ (Rejected <=> ~HasUserTurn)
        /\ (Rejected => creates = 0 /\ outcome = "none")
        /\ (Rejected /\ Len(history) > 0
               => http.error = "At least one user message is required")

\* C13: a request with a missing or empty tool catalog is never turned away
\* for lacking tools, and when the backend returns action chat with content
\* C for it, the reply is a 200 whose message has content C and no tool
\* call.
C13_ChatOnlyMode ==
    /\ (Rejected /\ tools = {} => getLastUserMessage(history) = <<>>)
    /\ (pc = "done" /\ tools = {} /\ outcome = "SUCCESS" /\ unified.action = "chat"
           => /\ http.code = 200
              /\ sent.message.role = "assistant"
              /\ sent.message.content = unified.content
              /\ sent.message.tool_calls = <<>>)

\* no tools, the backend said chat "hi", and the reply carries "hi"
C13_Witness ==
    /\ pc = "done"
    /\ tools = {}
    /\ outcome = "SUCCESS"
    /\ unified.action = "chat"
    /\ http.code = 200
    /\ sent.message.content = <<104, 105>>
    /\ sent.message.tool_calls = <<>>

\* C14: the final-fallback Chat takes the Japanese template when the last
\* user message has a kana code point, else the Chinese template when it
\* has a CJK ideograph, else the English one; a message with both kana and
\* ideographs gets the Japanese template.  (Stated for a primary exchange
\* that got its session and then failed.)
C14_KanaBeforeIdeographs ==
    (EngineDone /\ outcome = "FALLBACK_CHAT" /\ primaryError \notin StartErrors) =>
        LET userMessage == getLastUserMessage(history)
        IN  unified.content =
                IF hasJapaneseChars(userMessage) THEN FallbackJapanese
                ELSE IF hasChineseChars(userMessage) THEN FallbackChinese
                ELSE FallbackEnglish

\* a direct call to the wire adapter has returned
Converted == applied = "convertUnifiedResponseToOllama"

\* C15: the wire adapter maps every tool_call response, whatever its tool
\* name and arguments (empty and nested ones included), to an assistant
\* message with empty content and exactly one tool-call entry, whose
\* function name is tool_name and whose arguments are the input arguments
\* as an object, not a string; reading the entry back gives the response.
C15_ToolCallRoundTrip ==
    (Converted /\ input.unifiedResponse.action = "tool_call") =>
        LET message == output.message
        IN  /\ message.role = "assistant"
            /\ message.content = <<>>
            /\ Len(message.tool_calls) = 1
            /\ LET entry == message.tool_calls[1].function
               IN  /\ entry.name = input.unifiedResponse.tool_name
                   /\ entry.arguments.typeof = "object"
                   /\ entry.arguments.value = input.unifiedResponse.arguments
                   /\ Response("tool_call", {"action", "tool_name", "arguments"},
                               entry.name, entry.arguments.value, <<>>)
                          = input.unifiedResponse

\* a tool_call with nested arguments went through the adapter
C15_Witness ==
    /\ Converted
    /\ input.unifiedResponse.action = "tool_call"
    /\ input.unifiedResponse.arguments = MixedArguments
    /\ Len(output.message.tool_calls) = 1
    /\ output.message.tool_calls[1].function.arguments.value = MixedArguments

\* C16: the wire adapter maps every answer and every chat response to an
\* assistant message whose content is the response's content exactly (the
\* empty string included) and which has no tool-call entry, with done true
\* and done_reason "stop".
C16_ContentPassedThrough ==
    (Converted /\ input.unifiedResponse.action \in {"answer", "chat"}) =>
        /\ output.message.role = "assistant"
        /\ output.message.content = input.unifiedResponse.content
        /\ output.message.tool_calls = <<>>
        /\ output.done = TRUE
        /\ output.done_reason = "stop"

\* an answer with empty content went through the adapter
C16_Witness ==
    /\ Converted
    /\ input.unifiedResponse.action = "answer"
    /\ input.unifiedResponse.content = <<>>
    /\ output.message.content = <<>>
    /\ output.done = TRUE

\* a direct call to the context builder has returned
Extracted == applied = "extractMessagesAndTools"

\* the indices of the non-system messages of a message list
NonSystem(messages) == { i \in 1..Len(messages) : messages[i].role # "system" }

\* the contents of the system messages, in order, joined by line feeds
RECURSIVE JoinSystem(_)
JoinSystem(messages) ==
    IF Len(messages) = 0 THEN <<>>
    ELSE LET rest == JoinSystem(Tail(messages))
             later == \E i \in 2..Len(messages) : messages[i].role = "system"
         IN  IF messages[1].role # "system" THEN rest
             ELSE IF later THEN messages[1].content \o <<10>> \o rest
             ELSE messages[1].content

\* C18: extractMessagesAndTools returns as history exactly the non-system
\* messages of the request, in their order and verbatim (assistant tool
\* calls and tool results included), and as systemContext the contents of
\* the system messages in order, joined by newline and trimmed.
C18_HistoryVerbatim ==
    Extracted =>
        LET messages == input.messages
            kept == NonSystem(messages)
            hist == output.conversationHistory
        IN  /\ Len(hist) = Cardinality(kept)
            /\ \A i \in kept :
                   hist[Cardinality({ j \in kept : j <= i })] = messages[i]
            /\ output.systemContext = trim(JoinSystem(messages))

\* a request with two system messages, an assistant tool call and a tool
\* result went through the context builder
C18_Witness ==
    /\ Extracted
    /\ Len(input.messages) = 3
    /\ input.messages[1].role = "system"
    /\ input.messages[2] =
           Msg("assistant", <<>>,
               << ToolCall(HassTurnOn, TypedValue("object", AreaArguments)) >>)
    /\ input.messages[3].role = "tool"
    /\ Len(output.conversationHistory) = 2
    /\ output.conversationHistory[1] = input.messages[2]
    /\ output.systemContext = <<115, 121, 115>>

\* C19: extractMessagesAndTools has no error outcome: every field of its
\* result is defined, and a request without a tools array yields the empty
\* tool list, as one with an empty tools array does.
C19_MissingToolsIsEmpty ==
    Extracted =>
        /\ output.has = {"systemContext", "conversationHistory", "availableTools"}
        /\ ("tools" \notin input.has => output.availableTools = {})
        /\ ("tools" \in input.has => output.availableTools = input.tools)

\* a request without a tools array went through the context builder
C19_Witness ==
    /\ Extracted
    /\ "tools" \notin input.has
    /\ Len(input.messages) > 0
    /\ "availableTools" \in output.has
    /\ output.availableTools = {}

\* C20: for a history with a user-role message getLastUserMessage returns
\* the content of the most recent one, whatever assistant or tool messages
\* follow it; for a history without one (empty, all assistant, all tool) it
\* returns the empty string.
C20_LastUserMessage ==
    (applied = "getLastUserMessage") =>
        LET users == { i \in 1..Len(input) : input[i].role = "user" }
        IN  IF users = {} THEN output = <<>>
            ELSE \E i \in users :
                    /\ \A j \in users : j <= i
                    /\ output = input[i].content

\* a user turn followed by a tool result: the user turn's content came back
C20_Witness ==
    /\ applied = "getLastUserMessage"
    /\ Len(input) = 3
    /\ input[2].role = "user"
    /\ input[3].role = "tool"
    /\ output = input[2].content
    /\ output # <<>>

\* C21: for every history of length 0 or 1 buildToolSelectionContext
\* returns the empty string, whatever maxMessages is.
C21_ShortHistoryNoContext ==
    (applied = "buildToolSelectionContext" /\ Len(input.conversationHistory) <= 1)
        => output = <<>>

\* a single user turn "hi" was given and no context came back
C21_Witness ==
    /\ applied = "buildToolSelectionContext"
    /\ input.conversationHistory = << Msg("user", <<104, 105>>, <<>>) >>
    /\ input.maxMessages = 10
    /\ output = <<>>

\* what a sendPrompt with maxWaitMs w returns or raises when the backend
\* treats its session according to fate f and nothing else touches that
\* session
OwnOutcome(f, w) ==
    IF f = "createThrows" THEN CreateError
    ELSE IF f = "createNoId" THEN CreateFailed
    ELSE IF f = "promptRejects" THEN PromptError
    ELSE IF f = "promptTimeout" THEN PromptTimeout
    ELSE IF f = "messagesThrow" THEN MessagesError
    ELSE IF f = "noText" THEN ResponseTimeout(w)
    ELSE "return"

\* C22: however the calls of concurrent requests interleave, each exchange
\* submits to, polls and deletes only the session it created; no session id
\* is used by two exchanges; and what an exchange returns or raises is what
\* the backend's treatment of its own session gives, whatever failure,
\* timeout or cleanup error the other request meets.
C22_SessionsNotShared ==
    /\ \A u \in used :
           /\ u[3] # 0
           /\ backend.owner[u[3]] = u[1]
           /\ u[3] = xch[u[1]].sessionId
    /\ \A u \in used : \A v \in used : (u[3] = v[3] => u[1] = v[1])
    /\ \A r \in Invocations :
           xch[r].pc = "done"
               => xch[r].result = OwnOutcome(xch[r].fate, xch[r].maxWaitMs)

\* both requests in flight on sessions of their own: r1, a primary
\* exchange, is polling the session it created while r2, a secondary
\* exchange that got no text within its 10 s, has deleted its own
C22_Witness ==
    /\ xch["r1"].pc = "messages"
    /\ xch["r1"].maxWaitMs = PrimaryMaxWaitMs
    /\ xch["r1"].polled
    /\ xch["r1"].elapsed > SecondaryMaxWaitMs
    /\ xch["r2"].pc = "done"
    /\ xch["r2"].maxWaitMs = SecondaryMaxWaitMs
    /\ xch["r2"].result = ResponseTimeout(SecondaryMaxWaitMs)
    /\ <<"r2", "delete", xch["r2"].sessionId>> \in used
    /\ <<"r1", "messages", xch["r1"].sessionId>> \in used
    /\ xch["r1"].sessionId # xch["r2"].sessionId

\* C23: whatever the variant (tool_call, answer, chat), the wire response of
\* a processing time of p milliseconds has total_duration and eval_duration
\* equal to p * 1,000,000 and eval_count equal to 1.
C23_NanosecondTimings ==
    (applied = "convertUnifiedResponseToOllama") =>
        /\ output.total_duration.millions = input.processingTimeMs
        /\ output.total_duration.units = 0
        /\ output.eval_duration = output.total_duration
        /\ output.eval_count = 1

\* a tool call converted after 100 ms reports 100,000,000 ns twice
C23_Witness ==
    /\ applied = "convertUnifiedResponseToOllama"
    /\ input.unifiedResponse.action = "tool_call"
    /\ input.processingTimeMs = 100
    /\ output.total_duration = Long(100, 0)
    /\ output.eval_duration = Long(100, 0)
    /\ output.eval_count = 1

\* C24: with a history ending in a tool result, when the primary exchange
\* failed and the secondary answer exchange failed too (each after getting
\* its session), the engine returns no Answer: it returns the heuristic
\* ToolCall or the apology Chat.
C24_SecondaryFailureContinues ==
    (/\ EngineDone
     /\ EndsInToolResult
     /\ primaryError \in (ExchangeErrors \cup MalformedErrors)
     /\ secondaryError \in ExchangeErrors)
        => /\ unified.action \in {"tool_call", "chat"}
           /\ outcome \in {"FALLBACK_HEURISTIC_TOOLCALL", "FALLBACK_CHAT"}

\* C25: when the heuristic fallback fired (after a primary exchange that got
\* its session), the ToolCall names a tool of the request's catalog that
\* made the heuristic applicable, with empty arguments, and post-validation
\* hands it on as it is, never as "unknown".
C25_HeuristicNamesCatalogTool ==
    (/\ pc = "done"
     /\ outcome = "FALLBACK_HEURISTIC_TOOLCALL"
     /\ primaryError \notin StartErrors)
        => /\ unified.tool_name \in tools
           /\ hasGetLiveContext({unified.tool_name})
           /\ unified.arguments = NoArguments
           /\ wire = unified
           /\ wire.tool_name # UnknownTool

\* the places of a backend text where a JSON object stands
ObjectPositions(text) ==
    { i \in 1..Len(text) : text[i] < 0 /\ JsonPool[0 - text[i]].kind = "object" }

\* the first JSON object of a text that has one
FirstObject(text) ==
    LET first == CHOOSE i \in ObjectPositions(text) :
                     \A j \in ObjectPositions(text) : i <= j
    IN  JsonPool[0 - text[first]]

\* C26: when the text the primary exchange returned holds a JSON object,
\* alone, next to other objects, after prose or inside code fences, the
\* engine decodes the first one: if its action is valid the decision it
\* encodes is returned as SUCCESS; the text counts as undecodable only when
\* it holds no object.
C26_FirstObjectDecoded ==
    [][(/\ pc = "returned"
        /\ pc' # pc
        /\ exchange = "primary"
        /\ sendResult.kind = "return"
        /\ ObjectPositions(sendResult.content) # {})
          => LET first == FirstObject(sendResult.content)
             IN  /\ primaryError' # "SyntaxError"
                 /\ ("action" \in first.has /\ first.action \in ValidActions)
                        => /\ outcome' = "SUCCESS"
                           /\ unified' = Response(first.action, first.has,
                                                   first.tool_name, first.arguments,
                                                   first.content)]_vars

\* C27: every SUCCESS response is well-formed: a tool_call has a non-empty
\* tool_name and an arguments mapping, an answer or chat has a content.
C27_SuccessIsWellFormed ==
    (EngineDone /\ outcome = "SUCCESS") =>
        IF unified.action = "tool_call"
        THEN /\ "tool_name" \in unified.has
             /\ unified.tool_name # <<>>
             /\ "arguments" \in unified.has
        ELSE "content" \in unified.has

\* C28: the secondary answer exchange (fallback a) runs only for a history
\* whose last entry has role tool, and a failed primary exchange on such a
\* history always takes it; a tool result followed by a later message does
\* not count: the engine then ends without a second session and without
\* an Answer from the fallback chain.
C28_OnlyTrailingToolResult ==
    /\ (exchange = "secondary" => EndsInToolResult /\ primaryError # "")
    /\ (EngineDone /\ outcome = "FALLBACK_ANSWER" => EndsInToolResult)
    /\ (EngineDone /\ primaryError # "" /\ EndsInToolResult
            => outcome = "FALLBACK_ANSWER")
    /\ (EngineDone /\ ~EndsInToolResult
            => creates <= 1 /\ outcome # "FALLBACK_ANSWER")

\* a tool result followed by a new user turn "hi": the primary exchange
\* timed out and the engine went straight to the apology
C28_Witness ==
    /\ EngineDone
    /\ Len(history) = 2
    /\ history[1].role = "tool"
    /\ history[2] = Msg("user", <<104, 105>>, <<>>)
    /\ primaryError = ResponseTimeout(PrimaryMaxWaitMs)
    /\ creates = 1
    /\ outcome = "FALLBACK_CHAT"

\* C29: in every exchange in progress, primary or secondary, the response
\* bound of the poll loop is strictly longer than the submission timeout,
\* and the submission, response and cleanup bounds are three different
\* values.  (Stated for requests whose primary exchange got its session.)
C29_ResponseBoundLongest ==
    (/\ InExchange
     /\ exchange \in {"primary", "secondary"}
     /\ primaryError \notin StartErrors) =>
        /\ maxWaitMs > PromptTimeoutMs
        /\ Cardinality({PromptTimeoutMs, maxWaitMs, DeleteTimeoutMs}) = 3

\* the non-empty texts the most recent assistant entry of a message list
\* carries
LastAssistantTexts(data) ==
    LET assistantMsgs == SelectSeq(data, LAMBDA m : m.role = "assistant")
    IN  IF Len(assistantMsgs) = 0 THEN {}
        ELSE LET parts == assistantMsgs[Len(assistantMsgs)].parts
             IN  { parts[i].text : i \in { j \in 1..Len(parts) :
                       parts[j].type = "text" /\ parts[j].text # <<>> } }

\* C30: sendPrompt goes on polling only while the most recent assistant
\* entry of the list just read carries no non-empty text; what it returns
\* is a non-empty text of that entry, never a text of an earlier assistant
\* entry or of another role; the response-timeout error is raised only with
\* no such text read, and empty content is never returned.
C30_LastAssistantTextCompletes ==
    /\ (pc \in {"messages", "sleep"} => LastAssistantTexts(messagesData) = {})
    /\ (pc = "cleanup" /\ pending.kind = "return"
            => pending.content \in LastAssistantTexts(messagesData))
    /\ (pc = "cleanup" /\ pending.kind = "throw" /\ pending.error = ResponseTimeout(maxWaitMs)
            => LastAssistantTexts(messagesData) = {})
    /\ (sendResult.kind = "return" => sendResult.content # <<>>)

\* C31: an exchange whose submit call completed before the submission
\* timeout raises the response-timeout error only after at least one
\* list-messages poll, however long the submit call took.  (Stated for
\* requests whose primary exchange got its session.)
C31_PolledBeforeResponseTimeout ==
    (/\ pc = "cleanup"
     /\ pending.kind = "throw"
     /\ pending.error = ResponseTimeout(maxWaitMs)
     /\ primaryError \notin StartErrors)
        => polled

\* the last n entries of a history, in their order; none for n <= 0
LastEntries(h, n) ==
    IF n <= 0 THEN <<>>
    ELSE IF n >= Len(h) THEN h
    ELSE SubSeq(h, Len(h) - n + 1, Len(h))

\* C32: for a history of two or more entries and a window of maxMessages
\* entries (one or more, 10 by default) the output of
\* buildToolSelectionContext is what the last maxMessages entries alone
\* give, in their order: each user entry of that window appears as
\* "User: content", each assistant entry with a tool call as
\* "Assistant: [Executed Name(args)]", and the output is empty when the
\* window has no renderable line.
C32_OnlyWindowContributes ==
    (/\ applied = "buildToolSelectionContext"
     /\ Len(input.conversationHistory) >= 2
     /\ input.maxMessages >= 1) =>
        LET window == LastEntries(input.conversationHistory, input.maxMessages)
        IN  /\ output = RenderContext(window, Len(window))
            /\ \A i \in 1..Len(window) :
                   /\ (window[i].role = "user"
                          => includes(output, UserPrefix \o window[i].content))
                   /\ (window[i].role = "assistant" /\ Len(window[i].tool_calls) > 0
                          => includes(output,
                                 ExecutedPrefix \o window[i].tool_calls[1].function.name
                                 \o <<40>>
                                 \o JSONstringify(
                                        window[i].tool_calls[1].function.arguments.value)
                                 \o <<41, 93>>))
            /\ ((\A i \in 1..Len(window) : ContextLine(window[i]) = <<>>)
                    => output = <<>>)

\* C32: a window of two on a history of three: the first user turn "hi" is
\* left out, the tool call and the last user turn are rendered.
C32_Witness ==
    /\ applied = "buildToolSelectionContext"
    /\ input.maxMessages = 2
    /\ input.conversationHistory =
           << Msg("user", <<104, 105>>, <<>>),
              Msg("assistant", <<>>,
                  << ToolCall(HassTurnOn, TypedValue("object", AreaArguments)) >>),
              Msg("user", <<12354, 29128>>, <<>>) >>
    /\ ~includes(output, UserPrefix \o <<104, 105>>)
    /\ includes(output, ExecutedPrefix \o HassTurnOn)
    /\ includes(output, UserPrefix \o <<12354, 29128>>)

\* the sessions of the request whose deletion has not been attempted
SessionsInUse == { i \in 1..Len(sessionLog) : ~sessionLog[i].deleteAttempted }

\* C33: one engine invocation has at most one session in use at a time and
\* reuses none: a second session is created only by the secondary exchange,
\* only after the finally block of the primary exchange has attempted the
\* deletion of its session, and it is a different session.
C33_OneSessionAtATime ==
    /\ Len(sessionLog) <= 2
    /\ Cardinality(SessionsInUse) <= 1
    /\ \A i \in 1..Len(sessionLog) : \A j \in 1..Len(sessionLog) :
           (i < j) => /\ sessionLog[i].exchange = "primary"
                      /\ sessionLog[i].deleteAttempted
                      /\ sessionLog[j].exchange = "secondary"
                      /\ sessionLog[j].id # sessionLog[i].id
    /\ (created => /\ Len(sessionLog) > 0
                   /\ sessionLog[Len(sessionLog)].exchange = exchange)

\* the secondary exchange is polling its own session; the session of the
\* primary exchange, whose prompt timed out, has had its deletion attempted
C33_Witness ==
    /\ exchange = "secondary"
    /\ pc = "messages"
    /\ primaryError = PromptTimeout
    /\ Len(sessionLog) = 2
    /\ sessionLog[1].deleteAttempted
    /\ ~sessionLog[2].deleteAttempted
    /\ sessionLog[1].id # sessionLog[2].id

\* C34: with a history ending in a tool result, a failed primary exchange
\* never ends in a synthesized ToolCall: the outcome is an Answer, and when
\* the secondary exchange is over its content is the trimmed text that
\* exchange returned, or the raw content of the trailing tool message when
\* it raised.
C34_ToolResultNeverToolCall ==
    /\ [](EngineDone /\ EndsInToolResult /\ primaryError # ""
            => /\ outcome = "FALLBACK_ANSWER"
               /\ unified.action = "answer"
               /\ unified.tool_name = <<>>)
    /\ [][(pc = "returned" /\ pc' # pc /\ exchange = "secondary")
            => /\ EndsInToolResult
               /\ answer'.kind = "return"
               /\ answer'.content =
                      IF sendResult.kind = "return" THEN trim(sendResult.content)
                      ELSE history[Len(history)].content]_vars
    /\ [][(pc = "answered" /\ pc' # pc)
            => /\ unified'.action = "answer"
               /\ unified'.content = answer.content]_vars

\* the primary exchange timed out and the secondary one returned
\* " {...}\n": the answer is that text without the blanks around it
C34_Witness ==
    /\ EngineDone
    /\ EndsInToolResult
    /\ primaryError = ResponseTimeout(PrimaryMaxWaitMs)
    /\ secondaryError = ""
    /\ outcome = "FALLBACK_ANSWER"
    /\ unified.action = "answer"
    /\ unified.content = << -5 >>

\* C35: over the life of the process the client is created once and set to
\* null once: a connect() call with a client in place makes no new one,
\* the client is closed only when the server has closed, a second shutdown
\* handler closes nothing, and every sendPrompt called on the closed
\* service throws the not-connected error instead of calling
\* session.create.
C35_OpenedOnceClosedOnce ==
    /\ life.opens <= 1
    /\ life.closes <= 1
    /\ (life.connects > 0 => life.opens = 1)
    /\ (life.closes = 1 => life.server = "closed")
    /\ (client = "null" <=> life.closes = 1)
    /\ (client = "client" <=> (life.opens = 1 /\ life.closes = 0))
    /\ \A s \in life.sends : (s[1] # "client" => s[2] = NotConnected)
    /\ \A s \in life.sends : (s[1] = "client" => s[2] = "create")

\* connect() was called twice, both shutdown handlers called close(), and
\* a handler still running called sendPrompt on the closed service
C35_Witness ==
    /\ life.connects = 2
    /\ life.opens = 1
    /\ life.closeCalls = 2
    /\ life.closes = 1
    /\ life.server = "closed"
    /\ client = "null"
    /\ <<"null", NotConnected>> \in life.sends
    /\ <<"client", "create">> \in life.sends

\* C36: in every state isConnected() is true exactly when the service has
\* a client (false before any connect(), true after connect(), false after
\* close()), and /health reports "connected" exactly then.
C36_IsConnectedReflectsClient ==
    /\ isConnected(client) <=> (client = "client")
    /\ (HealthOpencode(client) = "connected") <=> (client = "client")

\* the history a chat request gives: none when the body has no messages
BuiltHistory(body) ==
    IF "messages" \notin body.has \/ Len(body.messages) = 0 THEN <<>>
    ELSE ExtractHistory(body)

\* C37: the conversation history is never modified after it is built.  A
\* direct call of getLastUserMessage, buildToolSelectionContext or
\* formatConversationHistory leaves the array it is given as it was; the
\* history a request is accepted or turned away with is the one built from
\* its body; and from then until the handler has replied no step changes
\* it: a whole generateResponse invocation, with its helper calls and its
\* fallback paths, leaves the history's length, order and messages as they
\* were.
C37_HistoryNeverModified ==
    /\ [](applied = "getLastUserMessage" => argument = input)
    /\ [](applied = "buildToolSelectionContext"
             => argument = input.conversationHistory)
    /\ [](applied = "formatConversationHistory" => argument = input.history)
    /\ [][(pc = "idle" /\ pc' # "idle")
             => \E body \in ChatRequests : history' = BuiltHistory(body)]_vars
    /\ [][(pc # "idle" /\ pc' # "idle") => history' = history]_vars

\* C37: the fallback chain has run over a history that ends in a tool
\* result, and the reply is ready.
C37_Witness ==
    /\ pc = "respond"
    /\ exchange = "secondary"
    /\ Len(history) = 2
    /\ HasToolResult(history)
    /\ outcome = "FALLBACK_ANSWER"

\* C38: post-validation changes nothing but invalid tool calls: an answer,
\* a chat, a tool_call whose tool_name is in the catalog and a tool_call
\* already named "unknown" reach the wire adapter as the engine returned
\* them, arguments included.
C38_ValidResponsesUnchanged ==
    (/\ pc = "done"
     /\ http.code = 200
     /\ \/ unified.action # "tool_call"
        \/ /\ "tool_name" \in unified.has
           /\ (unified.tool_name \in tools \/ unified.tool_name = UnknownTool))
    => wire = unified

\* C38: the backend named the tool "unknown" and gave arguments; the wire
\* adapter got the call with those arguments.
C38_Witness ==
    /\ pc = "done"
    /\ http.code = 200
    /\ outcome = "SUCCESS"
    /\ unified.action = "tool_call"
    /\ unified.tool_name = UnknownTool
    /\ unified.arguments = AreaArguments
    /\ wire.tool_name = UnknownTool
    /\ wire.arguments = AreaArguments

\* C39: getOriginalUserRequest (scan from the tail for the first user
\* entry) returns for every history the string getLastUserMessage (filter
\* the user entries, take the last) returns for it: the content of the
\* last user entry, the empty string when that content is empty or when
\* the history has no user entry.
C39_SameLastUserMessage ==
    /\ applied = "getOriginalUserRequest" => output = getLastUserMessage(input)
    /\ applied = "getLastUserMessage" => output = getOriginalUserRequest(input)

\* C39: the tail scan ran over a history with two user entries of
\* different contents and a tool result after them, and returned the
\* content of the later one.
C39_Witness ==
    /\ applied = "getOriginalUserRequest"
    /\ Len(input) = 3
    /\ input[1].role = "user"
    /\ input[2].role = "user"
    /\ input[3].role = "tool"
    /\ input[1].content # input[2].content
    /\ output = input[2].content
    /\ output # <<>>

=============================================================================
